---- MODULE Spec2Model ----
(***************************************************************************)
(* Verification model of the timesheet automation: the schedule manager    *)
(* (day classification), the hour allocation of _log_overhead_hours, the   *)
(* daily reconciliation (sync_daily), the monthly submission and the tray  *)
(* application's busy flag.                                                *)
(*                                                                         *)
(* Dates are day numbers; day 0 is a Monday, so weekday(d) = d % 7 with    *)
(* 5 = Saturday and 6 = Sunday as in Python's date.weekday().  A day       *)
(* number stands for the zero-padded YYYY-MM-DD string of that day.        *)
(* Durations are integer seconds.                                          *)
(***************************************************************************)
EXTENDS Integers, Sequences, FiniteSets, Bags, TLC

(***************************************************************************)
(* IEEE-754 double arithmetic, as far as the engine uses it:               *)
(*     ratio = hours / total_configured      (true division, rounded)      *)
(*     int(total_seconds * ratio)            (product rounded, truncated)  *)
(* A double is a MantissaBits-bit integer times a power of two.  Long      *)
(* integers are sequences of LimbBits-bit digits, least significant        *)
(* first.  Operands: 0 <= t < 2^17, 0 <= w < 2^16, 0 < s < 2^16.           *)
(***************************************************************************)
MantissaBits == 53

LimbBits == 13

RECURSIVE Pow2(_)
Pow2(k) == IF k = 0 THEN 1 ELSE 2 * Pow2(k - 1)

Limb == Pow2(LimbBits)

RECURSIVE Pow2Shift(_, _)
\* the least k >= 0 with w * 2^k >= s   (0 < w)
Pow2Shift(w, s) == IF w >= s THEN 0 ELSE 1 + Pow2Shift(2 * w, s)

RECURSIVE DownShift(_, _)
\* the greatest j >= 0 with s * 2^j <= w   (w >= s > 0)
DownShift(w, s) == IF w < 2 * s THEN 0 ELSE 1 + DownShift(w, 2 * s)

RECURSIVE BitLen(_)
BitLen(n) == IF n = 0 THEN 0 ELSE 1 + BitLen(n \div 2)

RECURSIVE QuotientLimbs(_, _, _)
\* the next n digits of r / s, most significant first   (0 <= r < s)
QuotientLimbs(r, s, n) ==
    IF n = 0 THEN <<>>
    ELSE <<(r * Limb) \div s>> \o QuotientLimbs((r * Limb) % s, s, n - 1)

RECURSIVE QuotientRem(_, _, _)
\* the remainder left after n digits of r / s
QuotientRem(r, s, n) ==
    IF n = 0 THEN r ELSE QuotientRem((r * Limb) % s, s, n - 1)

RECURSIVE ToLimbs(_)
ToLimbs(n) == IF n = 0 THEN <<>> ELSE <<n % Limb>> \o ToLimbs(n \div Limb)

RECURSIVE IncLimbs(_)
\* m + 1
IncLimbs(m) ==
    IF m = <<>> THEN <<1>>
    ELSE IF m[1] + 1 < Limb THEN <<m[1] + 1>> \o Tail(m)
    ELSE <<0>> \o IncLimbs(Tail(m))

RECURSIVE MulLimbs(_, _, _)
\* m * t + carry
MulLimbs(m, t, carry) ==
    IF m = <<>> THEN ToLimbs(carry)
    ELSE <<(m[1] * t + carry) % Limb>>
             \o MulLimbs(Tail(m), t, (m[1] * t + carry) \div Limb)

\* the mantissa of the double nearest to w / s (ties to even), for
\* s <= w < 2s:  w / s ~ mantissa * 2^-(MantissaBits - 1)
RatioMantissa(w, s) ==
    LET n  == (MantissaBits - 1) \div LimbBits
        q  == QuotientLimbs(w - s, s, n)
        r  == QuotientRem(w - s, s, n)
        m  == [i \in 1..(n + 1) |-> IF i = n + 1 THEN 1 ELSE q[n + 1 - i]]
        up == 2 * r > s \/ (2 * r = s /\ q[n] % 2 = 1)
    IN  IF up THEN IncLimbs(m) ELSE m

\* bit pos (0 = least significant) of the long integer p
BitOf(p, pos) == (p[(pos \div LimbBits) + 1] \div Pow2(pos % LimbBits)) % 2

RECURSIVE LimbsToInt(_)
LimbsToInt(p) == IF p = <<>> THEN 0 ELSE p[1] + Limb * LimbsToInt(Tail(p))

\* floor(p / 2^D)
ShiftRight(p, D) ==
    LET a == D \div LimbBits
        b == D % LimbBits
    IN  IF a >= Len(p) THEN 0
        ELSE (p[a + 1] \div Pow2(b))
                 + LimbsToInt(SubSeq(p, a + 2, Len(p))) * Pow2(LimbBits - b)

\* int(t * (w / s)): the quotient rounded to a double, the product rounded
\* to a double (d low bits dropped, ties to even), the result truncated
FloatShare(t, w, s) ==
    IF t = 0 \/ w = 0 THEN 0
    ELSE LET k  == IF w < s THEN Pow2Shift(w, s) ELSE 0 - DownShift(w, s)
             wn == IF w < s THEN w * Pow2(k) ELSE w
             sn == IF w < s THEN s ELSE s * Pow2(0 - k)
             p  == MulLimbs(RatioMantissa(wn, sn), t, 0)
             D  == MantissaBits - 1 + k
             d  == (LimbBits * (Len(p) - 1) + BitLen(p[Len(p)])) - MantissaBits
             carries == d >= 1 /\ \A pos \in (d - 1)..(D - 1) : BitOf(p, pos) = 1
         IN  ShiftRight(p, D) + (IF carries THEN 1 ELSE 0)

(***************************************************************************)
(* Bounds of the model.                                                    *)
(***************************************************************************)
\* the calendar window is Friday (day 4) .. MaxDay
MaxDay == 5

Days == 4..MaxDay

(***************************************************************************)
(* State.                                                                  *)
(***************************************************************************)
VARIABLES
    \* ScheduleManager
    working_days,       \* schedule.working_days   (compensatory days)
    pto_days,           \* schedule.pto_days
    extra_holidays,     \* schedule.extra_holidays
    org_holidays,       \* _org_holidays: date -> name (flattened table)
    country_holidays,   \* _country_holidays: <<set of dates>>, or <<>> for None
    config_file,        \* config.json: the three date lists of 'schedule'
    dayResult,          \* the last is_working_day call: <<date, result>>, or <<>>
    \* configuration (config.json as loaded by ConfigManager)
    role,               \* config['user']['role']
    daily_hours,        \* config['schedule']['daily_hours']
    overhead,           \* config['overhead']
    manual_activities,  \* config['manual_activities']
    \* the two external systems
    jira,               \* ticket system: the user's worklogs, in fetch order
    tempo_manual,       \* booking system: entries that have no Jira worklog
    active_issues,      \* tickets assigned to the user in an active status
    \* the process
    today,              \* date.today()
    calls,              \* create / delete / submit calls issued, in order
    last,               \* what the last operation computed and returned
    runs,               \* operations run so far
    \* TrayApp
    automation_loaded,  \* _automation is not None
    sync_running,       \* _sync_running (threading.Event)
    threads,            \* the worker threads started, in start order
    toasts,             \* _show_toast titles, in order
    icon,               \* the colour last set by _set_icon_state
    anim_running,       \* _anim_running: the syncing animation is ticking
    stdout,             \* sys.stdout of the tray process
    app,                \* the running tray instance: its message pump
    stop_file,          \* STOP_FILE exists
    stopper             \* a `--stop` invocation (stop_app): position, report

schedVars == <<working_days, pto_days, extra_holidays, org_holidays,
               country_holidays, config_file>>

configVars == <<role, daily_hours, overhead, manual_activities>>

externVars == <<jira, tempo_manual, active_issues>>

engineVars == <<today, calls, last, runs>>

shellVars == <<icon, anim_running, stdout, app, stop_file, stopper>>

trayVars == <<automation_loaded, sync_running, threads, toasts, shellVars>>

vars == <<schedVars, dayResult, configVars, externVars, engineVars, trayVars>>

(***************************************************************************)
(* ScheduleManager                                                         *)
(***************************************************************************)
weekday(d) == d % 7

RECURSIVE sorted(_)
\* sorted(S): the elements of a set of date strings in ascending order
sorted(S) ==
    IF S = {} THEN <<>>
    ELSE LET m == CHOOSE x \in S : \A y \in S : x <= y
         IN  <<m>> \o sorted(S \ {m})

\* the three lists _save_schedule_to_config writes (lines 985-990)
SavedSchedule(pto, extra, working) ==
    [pto_days |-> sorted(pto), extra_holidays |-> sorted(extra),
     working_days |-> sorted(working)]

OrgHolidayName == "Org Day"

\* holidays_lib ... .get(dt)
CountryHolidayName(d) == "Public Day"

\* is_working_day with the weekend test moved in front of the override test
is_working_day_weekend_first(target_date) ==
    LET dt == target_date
    IN  IF weekday(dt) >= 5
            THEN <<FALSE, IF weekday(dt) = 5 THEN "Weekend (Saturday)"
                                            ELSE "Weekend (Sunday)">>
        ELSE IF target_date \in working_days
            THEN <<TRUE, "Compensatory working day">>
        ELSE IF target_date \in pto_days
            THEN <<FALSE, "PTO">>
        ELSE IF target_date \in DOMAIN org_holidays
            THEN <<FALSE, "Holiday: " \o org_holidays[target_date]>>
        ELSE IF country_holidays # <<>> /\ dt \in country_holidays[1]
            THEN <<FALSE, "Holiday: " \o CountryHolidayName(dt)>>
        ELSE IF target_date \in extra_holidays
            THEN <<FALSE, "Extra holiday">>
        ELSE <<TRUE, "Working day">>

is_working_day(target_date) ==
    LET dt == target_date
    IN  IF target_date \in working_days
            THEN <<TRUE, "Compensatory working day">>
        ELSE IF target_date \in pto_days
            THEN <<FALSE, "PTO">>
        ELSE IF weekday(dt) >= 5
            THEN <<FALSE, IF weekday(dt) = 5 THEN "Weekend (Saturday)"
                                            ELSE "Weekend (Sunday)">>
        ELSE IF target_date \in DOMAIN org_holidays
            THEN <<FALSE, "Holiday: " \o org_holidays[target_date]>>
        ELSE IF country_holidays # <<>> /\ dt \in country_holidays[1]
            THEN <<FALSE, "Holiday: " \o CountryHolidayName(dt)>>
        ELSE IF target_date \in extra_holidays
            THEN <<FALSE, "Extra holiday">>
        ELSE <<TRUE, "Working day">>

(***************************************************************************)
(* Data of the automation engine.                                          *)
(***************************************************************************)
\* An issue key is <<project prefix, number>>: "OVERHEAD-7" is
\* <<"OVERHEAD-", 7>>.  key.startswith(prefix) compares the project part.
OverheadKey(n) == <<"OVERHEAD-", n>>

TicketKey(n) == <<"PROJ-", n>>

DefaultIssueKey == <<"GENERAL-", 1>>

TempoOnlyKey == <<"OVERHEAD (Tempo)", 0>>

StartsWith(key, prefix) == key[1] = prefix

\* s.get('hours', 0) of a story dict; hours is <<>> when the key is absent
HoursOf(s) == IF s.hours = <<>> THEN 0 ELSE s.hours[1]

Story(key, hours) == [issue_key |-> key, hours |-> hours]

Worklog(key, secs, day) ==
    [issue_key |-> key, time_spent_seconds |-> secs, started |-> day]

RECURSIVE SumSeconds(_)
\* sum(wl['time_spent_seconds'] for wl in worklogs)
SumSeconds(wls) ==
    IF wls = <<>> THEN 0
    ELSE Head(wls).time_spent_seconds + SumSeconds(Tail(wls))

RECURSIVE SumHours(_)
\* sum(s.get('hours', 0) for s in stories)
SumHours(stories) ==
    IF stories = <<>> THEN 0 ELSE HoursOf(Head(stories)) + SumHours(Tail(stories))

RECURSIVE SumInts(_)
SumInts(q) == IF q = <<>> THEN 0 ELSE Head(q) + SumInts(Tail(q))

\* int(daily_hours * 3600)
DailySeconds == daily_hours * 3600

\* get_my_worklogs(d, d) when the request succeeds / fails
FetchJira(d, ok) ==
    IF ok THEN SelectSeq(jira, LAMBDA wl : wl.started = d) ELSE <<>>

\* get_user_worklogs(d, d): the booking system shows every ticket-system
\* worklog (they sync to it) and the entries made directly in it
FetchTempo(d, ok) ==
    IF ok THEN SelectSeq(jira, LAMBDA wl : wl.started = d)
               \o SelectSeq(tempo_manual, LAMBDA wl : wl.started = d)
    ELSE <<>>

\* the tickets are returned although the request failed
FetchActive_ignores_failure(ok) == active_issues

\* get_my_active_issues()
FetchActive(ok) == IF ok THEN active_issues ELSE <<>>

(***************************************************************************)
(* _log_overhead_hours: which stories, which distribution, how many        *)
(* seconds each.                                                           *)
(***************************************************************************)
\* lines 2499-2522: defaults from current_pi, then the fallback issue
ResolveStories(oh, stories, distribution) ==
    LET s1 == IF stories = <<>> THEN oh.current_pi.stories ELSE stories[1]
        d1 == IF stories = <<>> /\ distribution = "None"
              THEN oh.current_pi.distribution ELSE distribution
        d2 == IF d1 = "None" THEN "equal" ELSE d1
    IN  IF s1 # <<>>
            THEN [stories |-> s1, distribution |-> d2,
                  origin |-> IF stories = <<>> THEN "current_pi" ELSE "argument"]
        ELSE IF oh.fallback_issue_key # <<>>
            THEN [stories |-> <<Story(oh.fallback_issue_key[1], <<>>)>>,
                  distribution |-> "single", origin |-> "fallback"]
        ELSE [stories |-> <<>>, distribution |-> d2, origin |-> "none"]

\* an equal split that drops the remainder
EqualAllocations_no_remainder(stories, total_seconds) ==
    [i \in 1..Len(stories) |->
        [issue_key |-> stories[i].issue_key,
         seconds |-> total_seconds \div Len(stories)]]

\* lines 2545-2552
EqualAllocations(stories, total_seconds) ==
    LET num        == Len(stories)
        per_ticket == total_seconds \div num
        remainder  == total_seconds - (per_ticket * num)
    IN  [i \in 1..num |->
            [issue_key |-> stories[i].issue_key,
             seconds |-> per_ticket + (IF i = num THEN remainder ELSE 0)]]

\* lines 2530-2536: the story dicts after the weights were defaulted
CustomStories(stories) ==
    IF SumHours(stories) <= 0
    THEN [i \in DOMAIN stories |-> [stories[i] EXCEPT !.hours = <<1>>]]
    ELSE stories

\* CustomAllocations without the correction of the last entry
CustomAllocations_uncorrected(stories, total_seconds) ==
    LET total_configured == IF SumHours(stories) <= 0 THEN Len(stories)
                            ELSE SumHours(stories)
        st        == CustomStories(stories)
    IN  [i \in DOMAIN st |->
            [issue_key |-> st[i].issue_key,
             seconds |-> FloatShare(total_seconds, HoursOf(st[i]),
                                    total_configured)]]

\* lines 2528-2544
CustomAllocations(stories, total_seconds) ==
    LET total_configured == IF SumHours(stories) <= 0 THEN Len(stories)
                            ELSE SumHours(stories)
        st        == CustomStories(stories)
        raw       == [i \in DOMAIN st |->
                         FloatShare(total_seconds, HoursOf(st[i]),
                                    total_configured)]
        allocated == SumInts(raw)
    IN  [i \in DOMAIN st |->
            [issue_key |-> st[i].issue_key,
             seconds |-> raw[i] + (IF i = Len(st) /\ allocated # total_seconds
                                   THEN total_seconds - allocated ELSE 0)]]

\* lines 2524-2552
Allocations(stories, distribution, total_seconds) ==
    IF distribution = "single"
        THEN <<[issue_key |-> stories[1].issue_key, seconds |-> total_seconds]>>
    ELSE IF distribution = "custom"
        THEN CustomAllocations(stories, total_seconds)
    ELSE EqualAllocations(stories, total_seconds)

\* lines 2554-2557: the create calls of the loop, in order
OverheadCreates(allocations) == SelectSeq(allocations, LAMBDA a : a.seconds > 0)

\* What _log_overhead_hours does up to its create loop, for the overhead
\* configuration oh: the allocations, the create calls to issue and the
\* story dicts it leaves behind.
LogOverheadPlan(oh, total_seconds, stories, distribution) ==
    LET r  == ResolveStories(oh, stories, distribution)
        al == IF r.stories = <<>> THEN <<>>
              ELSE Allocations(r.stories, r.distribution, total_seconds)
    IN  [mode |-> IF r.stories = <<>> THEN "none" ELSE r.distribution,
         origin |-> r.origin,
         total |-> total_seconds,
         allocations |-> al,
         creates |-> OverheadCreates(al),
         stories_after |-> IF r.stories # <<>> /\ r.distribution = "custom"
                           THEN CustomStories(r.stories) ELSE r.stories,
         targets |-> r.stories]

(***************************************************************************)
(* Overhead configuration and the planning week.                           *)
(***************************************************************************)
\* overhead taken as configured whatever the configuration holds
is_overhead_configured_always == TRUE

\* _is_overhead_configured: bool(pi_identifier and stories)
is_overhead_configured ==
    overhead.current_pi.pi_identifier # <<>> /\ overhead.current_pi.stories # <<>>

\* _parse_pi_end_date: an identifier is <<e>>, e the date it parses to as
\* <<day>>, or <<>> when it does not parse; the empty string is <<>>
parse_pi_end_date(pi_identifier) ==
    IF pi_identifier = <<>> THEN <<>> ELSE pi_identifier[1]

PlanningDays == 5

ScanLimit == 14

\* the scan of _is_planning_week without its safety check
RECURSIVE PlanningScan_unbounded(_, _, _, _)
PlanningScan_unbounded(pi_end, current, working_count, planning_end) ==
    IF working_count >= PlanningDays THEN <<planning_end>>
    ELSE LET w  == is_working_day(current)[1]
             c2 == IF w THEN working_count + 1 ELSE working_count
             e2 == IF w THEN current ELSE planning_end
         IN  PlanningScan_unbounded(pi_end, current + 1, c2, e2)

RECURSIVE PlanningScan(_, _, _, _)
\* the while loop of _is_planning_week: <<planning_end>>, or <<>> when the
\* loop returns False
PlanningScan(pi_end, current, working_count, planning_end) ==
    IF working_count >= PlanningDays THEN <<planning_end>>
    ELSE LET w  == is_working_day(current)[1]
             c2 == IF w THEN working_count + 1 ELSE working_count
             e2 == IF w THEN current ELSE planning_end
         IN  IF (current + 1) - pi_end > ScanLimit THEN <<>>
             ELSE PlanningScan(pi_end, current + 1, c2, e2)

\* no date is ever taken for a planning-week date
is_planning_week_never(target) == FALSE

\* _is_planning_week (lines 2440-2480)
is_planning_week(target) ==
    LET cp      == overhead.current_pi
        pi_end_ == IF cp.pi_end_date # <<>> THEN cp.pi_end_date
                   ELSE parse_pi_end_date(cp.pi_identifier)
    IN  IF pi_end_ = <<>> THEN FALSE
        ELSE IF target <= pi_end_[1] THEN FALSE
        ELSE LET planning_end ==
                     PlanningScan(pi_end_[1], pi_end_[1] + 1, 0, pi_end_[1])
             IN  /\ planning_end # <<>>
                 /\ pi_end_[1] < target
                 /\ target <= planning_end[1]

(***************************************************************************)
(* sync_daily: what one run decides before its delete and create calls.    *)
(* A plan names the branch taken, the fetches made, the worklogs to        *)
(* delete (positions in jira), the preserved entries, the allocation and   *)
(* the create calls.                                                       *)
(***************************************************************************)
Entry(wl) == [issue_key |-> wl.issue_key,
              time_spent_seconds |-> wl.time_spent_seconds]

NoAllocation(oh) ==
    [mode |-> "none", origin |-> "none", total |-> 0, allocations |-> <<>>,
     creates |-> <<>>, stories_after |-> <<>>, targets |-> <<>>]

Plan(outcome, fetches, deletes, kept, alloc, via) ==
    [outcome |-> outcome, fetches |-> fetches, deletes |-> deletes,
     kept |-> kept, alloc |-> alloc, via |-> via]

\* positions in jira of the worklogs of day d, in fetch order
RECURSIVE PositionsFrom(_, _)
PositionsFrom(i, d) ==
    IF i > Len(jira) THEN <<>>
    ELSE (IF jira[i].started = d THEN <<i>> ELSE <<>>) \o PositionsFrom(i + 1, d)

Positions(d, ok) == IF ok THEN PositionsFrom(1, d) ELSE <<>>

\* only the overhead worklogs of the day counted as existing
PtoExisting_overhead_only(d, jf) ==
    SelectSeq(FetchJira(d, jf),
              LAMBDA wl : StartsWith(wl.issue_key, overhead.project_prefix))

\* lines 1963-1968: the worklogs a PTO day already has
PtoExisting(d, jf) == FetchJira(d, jf)

\* _sync_pto_overhead (lines 1940-2016), jf: the worklog fetch succeeds
PtoPlan(d, jf) ==
    LET total_seconds    == DailySeconds
        pto_key          == overhead.pto_story_key
        existing         == PtoExisting(d, jf)
        existing_seconds == SumSeconds(existing)
    IN  IF existing_seconds >= total_seconds
        THEN Plan("pto_already_logged", {"jira"}, <<>>,
                  [i \in DOMAIN existing |-> Entry(existing[i])],
                  NoAllocation(overhead), "jira")
        ELSE Plan("pto_logged", {"jira"}, <<>>, <<>>,
                  LogOverheadPlan(overhead, total_seconds - existing_seconds,
                      IF pto_key # <<>> THEN << <<Story(pto_key[1], <<>>)>> >>
                      ELSE <<>>,
                      IF pto_key # <<>> THEN "single" ELSE "None"),
                  "jira")

\* lines 2290-2312: the equal split over the active tickets; every ticket
\* gets a create call
TicketAllocations_no_remainder(active, remaining_seconds) ==
    [i \in 1..Len(active) |->
        [issue_key |-> active[i],
         seconds |-> remaining_seconds \div Len(active)]]

TicketAllocations(active, remaining_seconds) ==
    LET num_tickets        == Len(active)
        seconds_per_ticket == remaining_seconds \div num_tickets
        remainder_secs     == remaining_seconds
                                - (seconds_per_ticket * num_tickets)
    IN  [i \in 1..num_tickets |->
            [issue_key |-> active[i],
             seconds |-> seconds_per_ticket
                           + (IF i = num_tickets THEN remainder_secs ELSE 0)]]

TicketPlan(active, remaining_seconds) ==
    LET al == TicketAllocations(active, remaining_seconds)
    IN  [mode |-> "tickets", origin |-> "active", total |-> remaining_seconds,
         allocations |-> al, creates |-> al, stories_after |-> <<>>,
         targets |-> <<>>]

\* a run that deletes nothing
NonOverheadPositions_none(positions, oh_prefix) == <<>>

\* a run that deletes every worklog of the day
NonOverheadPositions_all(positions, oh_prefix) == positions

\* lines 2163-2164: the worklogs the run goes on to delete
NonOverheadPositions(positions, oh_prefix) ==
    SelectSeq(positions, LAMBDA i : ~StartsWith(jira[i].issue_key, oh_prefix))

\* the entries made in the booking system only are not counted
tempo_only_ignored(tempo_total, jira_total) == 0

\* line 2176: hours entered directly in the booking system
tempo_only(tempo_total, jira_total) ==
    IF tempo_total - jira_total > 0 THEN tempo_total - jira_total ELSE 0

\* _auto_log_jira_worklogs (lines 2132-2343); jf, tf, af: the fetch of the
\* Jira worklogs, of the Tempo worklogs, of the active issues succeeds
AutoLogPlan(d, jf, tf, af) ==
    LET oh_prefix      == overhead.project_prefix
        total_seconds  == DailySeconds
        jira_worklogs  == FetchJira(d, jf)
        jira_total     == SumSeconds(jira_worklogs)
        jira_overhead  == SelectSeq(jira_worklogs,
                              LAMBDA wl : StartsWith(wl.issue_key, oh_prefix))
        positions      == Positions(d, jf)
        non_overhead   == NonOverheadPositions(positions, oh_prefix)
        tempo_total    == SumSeconds(FetchTempo(d, tf))
        tempo_only_seconds == tempo_only(tempo_total, jira_total)
        jira_oh_seconds    == SumSeconds(jira_overhead)
        overhead_seconds   == jira_oh_seconds + tempo_only_seconds
        remaining_seconds  == total_seconds - overhead_seconds
        overhead_result    ==
            [i \in DOMAIN jira_overhead |-> Entry(jira_overhead[i])]
            \o (IF tempo_only_seconds > 0
                THEN <<[issue_key |-> TempoOnlyKey,
                        time_spent_seconds |-> tempo_only_seconds]>>
                ELSE <<>>)
        planning       == overhead.planning_pi
        active         == FetchActive(af)
    IN  IF remaining_seconds <= 0
            THEN Plan("overhead_meets_target", {"jira", "tempo"}, non_overhead,
                      overhead_result, NoAllocation(overhead), "jira")
        ELSE IF is_planning_week(d)
            THEN Plan("planning_week", {"jira", "tempo"}, non_overhead,
                      overhead_result,
                      IF planning.stories = <<>>
                      THEN LogOverheadPlan(overhead, remaining_seconds,
                                           <<>>, "None")
                      ELSE LogOverheadPlan(overhead, remaining_seconds,
                                           <<planning.stories>>,
                                           planning.distribution),
                      "jira")
        ELSE IF active = <<>>
            THEN IF is_overhead_configured
                 THEN Plan("no_tickets_overhead", {"jira", "tempo", "active"},
                           non_overhead, overhead_result,
                           LogOverheadPlan(overhead, remaining_seconds,
                                           <<>>, "None"),
                           "jira")
                 ELSE Plan("no_tickets_not_configured",
                           {"jira", "tempo", "active"}, non_overhead,
                           overhead_result, NoAllocation(overhead), "jira")
        ELSE Plan("tickets", {"jira", "tempo", "active"}, non_overhead,
                  overhead_result, TicketPlan(active, remaining_seconds),
                  "jira")

\* _sync_manual_activities (lines 3055-3096), tf: the Tempo fetch succeeds
ManualPlan(d, tf) ==
    LET tempo_worklogs == FetchTempo(d, tf)
        al == [i \in DOMAIN manual_activities |->
                  [issue_key |-> DefaultIssueKey,
                   seconds |-> manual_activities[i].hours * 3600]]
    IN  IF manual_activities = <<>>
            THEN Plan("no_manual_activities", {}, <<>>, <<>>,
                      NoAllocation(overhead), "tempo")
        ELSE IF tempo_worklogs # <<>>
            \* the raw Tempo entries come back; sync_daily then reads
            \* 'time_spent_seconds' from them and raises KeyError
            THEN Plan("manual_exists_error", {"tempo"}, <<>>, <<>>,
                      NoAllocation(overhead), "tempo")
        ELSE Plan("manual", {"tempo"}, <<>>, <<>>,
                  [mode |-> "manual", origin |-> "manual_activities",
                   total |-> SumInts([i \in DOMAIN al |-> al[i].seconds]),
                   allocations |-> al, creates |-> al, stories_after |-> <<>>,
         targets |-> <<>>],
                  "tempo")

(***************************************************************************)
(* Carrying a plan out: the delete calls, then the create calls, each of   *)
(* which succeeds or fails.                                                *)
(***************************************************************************)
RECURSIVE Pick_until_failure(_, _, _)
\* the elements of q up to the first call that failed
Pick_until_failure(q, ok, i) ==
    IF i > Len(q) \/ ~ok[i] THEN <<>>
    ELSE <<q[i]>> \o Pick_until_failure(q, ok, i + 1)

RECURSIVE Pick(_, _, _)
\* the elements of q whose call succeeded
Pick(q, ok, i) ==
    IF i > Len(q) THEN <<>>
    ELSE (IF ok[i] THEN <<q[i]>> ELSE <<>>) \o Pick(q, ok, i + 1)

RECURSIVE Keep(_, _, _)
\* q without the positions in gone
Keep(q, gone, i) ==
    IF i > Len(q) THEN <<>>
    ELSE (IF i \in gone THEN <<>> ELSE <<q[i]>>) \o Keep(q, gone, i + 1)

Call(op, system, key, secs, day, ok) ==
    [op |-> op, system |-> system, issue_key |-> key, seconds |-> secs,
     day |-> day, ok |-> ok]

\* the in-memory configuration after a custom split defaulted the weights
\* of the story dicts it was handed (lines 2533-2536)
ConfigAfter(oh, plan) ==
    IF plan.alloc.mode # "custom" THEN oh
    ELSE IF plan.alloc.origin = "current_pi"
        THEN [oh EXCEPT !.current_pi.stories = plan.alloc.stories_after]
    ELSE IF plan.outcome = "planning_week" /\ plan.alloc.origin = "argument"
        THEN [oh EXCEPT !.planning_pi.stories = plan.alloc.stories_after]
    ELSE oh

NoLast ==
    [op |-> "none", date |-> 0, reason |-> "", outcome |-> "none",
     mode |-> "none", origin |-> "none", total |-> 0, allocations |-> <<>>,
     targets |-> <<>>, kept |-> <<>>, returned |-> <<>>, fetched |-> {},
     failed |-> {}, history |-> <<>>, skipped |-> <<>>,
     before |-> [jira |-> <<>>, tempo_manual |-> <<>>, overhead |-> <<>>,
                 schedule |-> <<>>]]

Before == [jira |-> jira, tempo_manual |-> tempo_manual,
           overhead |-> <<overhead>>,
           schedule |-> <<pto_days, extra_holidays, working_days, config_file>>]

\* dok, cok: the outcome of each delete call and of each create call
Execute(op, d, reason, plan, failed, dok, cok) ==
    LET gone     == {plan.deletes[i] : i \in {j \in DOMAIN plan.deletes : dok[j]}}
        creates  == plan.alloc.creates
        made     == Pick(creates, cok, 1)
        booked   == [i \in DOMAIN made |->
                        Worklog(made[i].issue_key, made[i].seconds, d)]
        deletes_ == [i \in DOMAIN plan.deletes |->
                        Call("delete", "jira", jira[plan.deletes[i]].issue_key,
                             jira[plan.deletes[i]].time_spent_seconds, d, dok[i])]
        creates_ == [i \in DOMAIN creates |->
                        Call("create", plan.via, creates[i].issue_key,
                             creates[i].seconds, d, cok[i])]
    IN  /\ jira' = IF plan.via = "jira" THEN Keep(jira, gone, 1) \o booked
                   ELSE Keep(jira, gone, 1)
        /\ tempo_manual' = IF plan.via = "tempo" THEN tempo_manual \o booked
                           ELSE tempo_manual
        /\ calls' = calls \o deletes_ \o creates_
        /\ overhead' = ConfigAfter(overhead, plan)
        /\ last' = [op |-> op, date |-> d, reason |-> reason,
                    outcome |-> plan.outcome, mode |-> plan.alloc.mode,
                    origin |-> plan.alloc.origin, total |-> plan.alloc.total,
                    allocations |-> plan.alloc.allocations,
                    targets |-> plan.alloc.targets,
                    kept |-> plan.kept,
                    returned |-> plan.kept \o
                        [i \in DOMAIN made |->
                            [issue_key |-> made[i].issue_key,
                             time_spent_seconds |-> made[i].seconds]],
                    fetched |-> plan.fetches, failed |-> failed \cap plan.fetches,
                    history |-> IF "history" \in DOMAIN plan THEN plan.history
                                ELSE <<>>,
                    skipped |-> <<>>,
                    before |-> Before]

\* every way the delete and create calls of a plan can turn out, B the
\* outcomes a call can have
Run(op, d, reason, plan, failed, B) ==
    \E p \in {plan} :
        \E dok \in [DOMAIN p.deletes -> B] :
            \E cok \in [DOMAIN p.alloc.creates -> B] :
                Execute(op, d, reason, p, failed, dok, cok)

FailedOf(jf, tf, af) ==
    (IF jf THEN {} ELSE {"jira"}) \cup (IF tf THEN {} ELSE {"tempo"})
        \cup (IF af THEN {} ELSE {"active"})

\* sync_daily (lines 2018-2096)
sync_daily(target_date, B) ==
    LET c          == is_working_day(target_date)
        is_working == c[1]
        reason     == c[2]
        is_off_day == reason # "Weekend"
    IN  IF ~is_working
        THEN IF is_off_day /\ role = "developer"
             THEN IF is_overhead_configured
                  THEN \E jf \in B :
                          Run("sync_daily", target_date, reason,
                              PtoPlan(target_date, jf),
                              FailedOf(jf, TRUE, TRUE), B)
                  ELSE Run("sync_daily", target_date, reason,
                           Plan("skipped_not_configured", {}, <<>>, <<>>,
                                NoAllocation(overhead), "jira"), {}, B)
             ELSE Run("sync_daily", target_date, reason,
                      Plan("skipped", {}, <<>>, <<>>,
                           NoAllocation(overhead), "jira"), {}, B)
        ELSE IF role = "developer"
             THEN \E jf \in B : \E tf \in B : \E af \in B :
                     Run("sync_daily", target_date, reason,
                         AutoLogPlan(target_date, jf, tf, af),
                         FailedOf(jf, tf, af), B)
             ELSE \E tf \in B :
                     Run("sync_daily", target_date, reason,
                         ManualPlan(target_date, tf),
                         FailedOf(TRUE, tf, TRUE), B)

(***************************************************************************)
(* verify_week: one iteration of its Monday..Friday loop.                  *)
(***************************************************************************)
\* jira_client is created for developers only (lines 1914-1916)
has_jira_client == role = "developer"

\* _check_day_hours (lines 3381-3406); jf: the worklog fetch succeeds
check_day_hours(d, jf) ==
    LET worklogs         == IF has_jira_client THEN FetchJira(d, jf) ELSE <<>>
        existing_seconds == SumSeconds(worklogs)
        expected_seconds == DailySeconds
    IN  [existing_seconds |-> existing_seconds,
         gap_seconds |-> IF expected_seconds - existing_seconds > 0
                         THEN expected_seconds - existing_seconds ELSE 0,
         positions |-> IF has_jira_client THEN Positions(d, jf) ELSE <<>>,
         existing_keys |-> {worklogs[i].issue_key : i \in DOMAIN worklogs}]

SecondsPerHour == 3600

\* int(gap_h * 3600) with gap_h = gap_seconds / 3600 (lines 3398, 3297)
GapArgument(gap_seconds) == FloatShare(SecondsPerHour, gap_seconds, SecondsPerHour)

\* lines 3464-3472: the equal split over the unlogged tickets; every
\* ticket gets a create call
BackfillAllocations(unlogged, gap_seconds) ==
    LET num        == Len(unlogged)
        per_ticket == gap_seconds \div num
        remainder  == gap_seconds - (per_ticket * num)
    IN  [i \in 1..num |->
            [issue_key |-> unlogged[i],
             seconds |-> per_ticket + (IF i = num THEN remainder ELSE 0)]]

\* no ticket is left out
Unlogged_unfiltered(issues, existing_keys) == issues

\* lines 3430-3433: the tickets not yet booked on the date
Unlogged(issues, existing_keys) ==
    SelectSeq(issues, LAMBDA k : k \notin existing_keys)

\* _backfill_day (lines 3408-3496); issues: what
\* get_issues_in_status_on_date returned
BackfillDecision(d, gap_seconds, existing_keys, issues) ==
    LET unlogged == Unlogged(issues, existing_keys)
        al       == BackfillAllocations(unlogged, gap_seconds)
    IN  IF ~has_jira_client
            THEN Plan("backfill_none", {"jira"}, <<>>, <<>>,
                      NoAllocation(overhead), "jira")
        ELSE IF unlogged = <<>>
            THEN IF is_overhead_configured
                 THEN Plan("backfill_overhead", {"jira", "history"}, <<>>, <<>>,
                           LogOverheadPlan(overhead, gap_seconds, <<>>, "None"),
                           "jira")
                 ELSE Plan("backfill_none", {"jira", "history"}, <<>>, <<>>,
                           NoAllocation(overhead), "jira")
        ELSE Plan("backfill_stories", {"jira", "history"}, <<>>, <<>>,
                  [mode |-> "backfill", origin |-> "history",
                   total |-> gap_seconds, allocations |-> al, creates |-> al,
                   stories_after |-> <<>>, targets |-> <<>>],
                  "jira")

\* the decision, with the tickets the history query returned
BackfillPlan(d, gap_seconds, existing_keys, issues) ==
    BackfillDecision(d, gap_seconds, existing_keys, issues)
        @@ [history |-> issues]

\* the tickets that were in an active status on a past date: any leading
\* part of the ticket list, or nothing when the query fails
HistoricIssues == {SubSeq(active_issues, 1, n) : n \in 0..Len(active_issues)}

\* the loop body of verify_week (lines 3196-3322) for a day that is not in
\* the future
verify_day(d, B) ==
    LET c          == is_working_day(d)
        is_working == c[1]
        reason     == c[2]
        is_off_day == reason # "Weekend"
        pto_key    == overhead.pto_story_key
    IN  IF ~is_working
        THEN IF is_off_day /\ is_overhead_configured /\ has_jira_client
             THEN \E jf \in B : \E result \in {check_day_hours(d, jf)} :
                        IF result.gap_seconds > 0
                        THEN Run("verify_week", d, reason,
                                 Plan("verify_off_day_logged", {"jira"},
                                      result.positions, <<>>,
                                      LogOverheadPlan(overhead, DailySeconds,
                                          IF pto_key # <<>>
                                          THEN << <<Story(pto_key[1], <<>>)>> >>
                                          ELSE <<>>,
                                          IF pto_key # <<>> THEN "single"
                                          ELSE "None"),
                                      "jira"),
                                 FailedOf(jf, TRUE, TRUE), B)
                        ELSE Run("verify_week", d, reason,
                                 Plan("verify_off_day_ok", {"jira"}, <<>>, <<>>,
                                      NoAllocation(overhead), "jira"),
                                 FailedOf(jf, TRUE, TRUE), B)
             ELSE Run("verify_week", d, reason,
                      Plan("verify_skipped", {}, <<>>, <<>>,
                           NoAllocation(overhead), "jira"), {}, B)
        ELSE \E jf \in B : \E result \in {check_day_hours(d, jf)} :
                    IF result.gap_seconds > 0
                    THEN \E issues \in HistoricIssues :
                         \E gap \in {GapArgument(result.gap_seconds)} :
                            Run("verify_week", d, reason,
                                BackfillPlan(d, gap, result.existing_keys,
                                             issues),
                                FailedOf(jf, TRUE, TRUE), B)
                    ELSE Run("verify_week", d, reason,
                             Plan("verify_complete", {"jira"}, <<>>, <<>>,
                                  NoAllocation(overhead), "jira"),
                             FailedOf(jf, TRUE, TRUE), B)

(***************************************************************************)
(* Configurations and starting states.                                     *)
(***************************************************************************)
MaxStories == 2

DailyHoursDefault == 8

CurrentPi(id, end, stories, dist) ==
    [pi_identifier |-> id, pi_end_date |-> end, stories |-> stories,
     distribution |-> dist]

PlanningPi(stories, dist) == [stories |-> stories, distribution |-> dist]

\* config['overhead']; an absent key is <<>> (keys) or "None" (distribution)
OverheadConfig(cp, pto, planning, fallback) ==
    [current_pi |-> cp, pto_story_key |-> pto, planning_pi |-> planning,
     fallback_issue_key |-> fallback, project_prefix |-> "OVERHEAD-"]

\* the hours a story dict can carry: no 'hours' key, or a weight
Weights == {<<>>, <<0>>, <<3>>, <<5>>, <<11>>, <<13>>}

StoryListsOfLen(n) ==
    {[i \in 1..n |-> Story(OverheadKey(i), h[i])] : h \in [1..n -> Weights]}

StoryLists == UNION {StoryListsOfLen(n) : n \in 1..MaxStories}

Distributions == {"None", "single", "equal", "custom"}

Totals == {0, 2, 28800, 28801}

PtoKey == OverheadKey(9)

FallbackKey == <<"ADMIN-", 1>>

PlanningStories == <<Story(OverheadKey(7), <<5>>), Story(OverheadKey(8), <<3>>)>>

NoOverhead ==
    OverheadConfig(CurrentPi(<<>>, <<>>, <<>>, "None"), <<>>,
                   PlanningPi(<<>>, "None"), <<>>)

ScheduleIdle ==
    /\ working_days = {} /\ pto_days = {} /\ extra_holidays = {}
    /\ org_holidays = <<>> /\ country_holidays = <<>>
    /\ config_file = SavedSchedule({}, {}, {})
    /\ dayResult = <<>>

ConfigIdle ==
    /\ role = "developer" /\ daily_hours = DailyHoursDefault
    /\ overhead = NoOverhead /\ manual_activities = <<>>

ExternIdle == jira = <<>> /\ tempo_manual = <<>> /\ active_issues = <<>>

EngineIdle == today = 4 /\ calls = <<>> /\ last = NoLast /\ runs = 0

\* no `--stop` invocation yet
NoStopper == [pc |-> "none", polls |-> 0, report |-> ""]

\* the tray instance after run() has started it: green icon, no animation,
\* the console as standard output, no stop file (lines 1029-1031)
ShellIdle ==
    /\ icon = "green" /\ anim_running = FALSE /\ stdout = "console"
    /\ app = "running" /\ stop_file = FALSE /\ stopper = NoStopper

TrayIdle ==
    /\ automation_loaded = TRUE /\ sync_running = FALSE
    /\ threads = <<>> /\ toasts = <<>>
    /\ ShellIdle

(***************************************************************************)
(* SpecSchedule: every schedule, every date of the window classified.      *)
(***************************************************************************)
\* a caller asks for the classification of a date
IsWorkingDayCall(d) ==
    /\ dayResult' = <<[date |-> d, result |-> is_working_day(d)]>>
    /\ UNCHANGED <<schedVars, configVars, externVars, engineVars, trayVars>>

InitSchedule ==
    /\ working_days \in SUBSET Days
    /\ pto_days \in SUBSET Days
    /\ extra_holidays \in SUBSET Days
    /\ org_holidays \in {[d \in D |-> OrgHolidayName] : D \in SUBSET Days}
    /\ country_holidays \in {<<D>> : D \in SUBSET Days} \cup {<<>>}
    /\ config_file = SavedSchedule(pto_days, extra_holidays, working_days)
    /\ dayResult = <<>>
    /\ ConfigIdle /\ ExternIdle /\ EngineIdle /\ TrayIdle

NextSchedule == \E d \in Days : IsWorkingDayCall(d)

SpecSchedule == InitSchedule /\ [][NextSchedule]_vars

(***************************************************************************)
(* C1: is_working_day returns the outcome of the first matching rule in    *)
(* the order override > PTO > weekend > org holiday > country holiday >    *)
(* extra holiday > working day; a date in the working-day overrides is     *)
(* always working with reason "Compensatory working day".                  *)
(***************************************************************************)
InOverride(d) == d \in working_days
InPto(d)      == d \in pto_days
IsWeekend(d)  == weekday(d) \in {5, 6}
InOrg(d)      == d \in DOMAIN org_holidays
InCountry(d)  == country_holidays # <<>> /\ d \in country_holidays[1]
InExtra(d)    == d \in extra_holidays

C1_PriorityOrder ==
    dayResult # <<>> =>
        LET d == dayResult[1].date
            r == dayResult[1].result
        IN  /\ InOverride(d) => r = <<TRUE, "Compensatory working day">>
            /\ (~InOverride(d) /\ InPto(d)) => r = <<FALSE, "PTO">>
            /\ (~InOverride(d) /\ ~InPto(d) /\ IsWeekend(d)) =>
                   /\ r[1] = FALSE
                   /\ r[2] \in {"Weekend (Saturday)", "Weekend (Sunday)"}
                   /\ (r[2] = "Weekend (Saturday)") = (weekday(d) = 5)
            /\ (~InOverride(d) /\ ~InPto(d) /\ ~IsWeekend(d) /\ InOrg(d)) =>
                   r = <<FALSE, "Holiday: Org Day">>
            /\ (~InOverride(d) /\ ~InPto(d) /\ ~IsWeekend(d) /\ ~InOrg(d)
                    /\ InCountry(d)) =>
                   r = <<FALSE, "Holiday: Public Day">>
            /\ (~InOverride(d) /\ ~InPto(d) /\ ~IsWeekend(d) /\ ~InOrg(d)
                    /\ ~InCountry(d) /\ InExtra(d)) =>
                   r = <<FALSE, "Extra holiday">>
            /\ (~InOverride(d) /\ ~InPto(d) /\ ~IsWeekend(d) /\ ~InOrg(d)
                    /\ ~InCountry(d) /\ ~InExtra(d)) =>
                   r = <<TRUE, "Working day">>

\* a weekend date that is in every set at once has been classified
C1_Witness ==
    /\ dayResult # <<>>
    /\ InOverride(dayResult[1].date) /\ InPto(dayResult[1].date)
    /\ IsWeekend(dayResult[1].date) /\ InOrg(dayResult[1].date)
    /\ InCountry(dayResult[1].date) /\ InExtra(dayResult[1].date)
    /\ dayResult[1].result[1] = TRUE

(***************************************************************************)
(* SpecAlloc: _log_overhead_hours called once, for every overhead story    *)
(* list, distribution, fallback and total of the bounds.                   *)
(***************************************************************************)
\* the (stories, distribution) arguments callers pass: nothing, a
\* distribution only, the PTO story, the planning stories
Arguments ==
    {<<(<<>>), d>> : d \in Distributions}
        \cup {<< <<(<<Story(PtoKey, <<>>)>>)>>, "single">>,
              << <<overhead.planning_pi.stories>>,
                 overhead.planning_pi.distribution>>}

log_overhead_hours(target_date, total_seconds, stories, distribution, B) ==
    Run("log_overhead", target_date, "",
        Plan("log_overhead", {}, <<>>, <<>>,
             LogOverheadPlan(overhead, total_seconds, stories, distribution),
             "jira"),
        {}, B)

LogOverheadCall ==
    /\ runs = 0
    /\ \E total_seconds \in Totals : \E a \in Arguments :
          log_overhead_hours(today, total_seconds, a[1], a[2], BOOLEAN)
    /\ runs' = runs + 1
    /\ UNCHANGED <<schedVars, dayResult, role, daily_hours, manual_activities,
                   active_issues, today, trayVars>>

InitAlloc ==
    /\ ScheduleIdle /\ ExternIdle /\ EngineIdle /\ TrayIdle
    /\ role = "developer" /\ daily_hours = DailyHoursDefault
    /\ manual_activities = <<>>
    /\ \E st \in StoryLists \cup {<<>>} : \E dist \in Distributions :
       \E fb \in {<<>>, <<FallbackKey>>} :
          overhead = OverheadConfig(CurrentPi(<< <<>> >>, <<>>, st, dist), <<>>,
                                    PlanningPi(PlanningStories, "custom"), fb)

NextAlloc == LogOverheadCall

SpecAlloc == InitAlloc /\ [][NextAlloc]_vars

AllocatedSeconds(al) == SumInts([i \in DOMAIN al |-> al[i].seconds])

AllCallsSucceeded == \A i \in DOMAIN calls : calls[i].ok

(***************************************************************************)
(* C2: for every distribution mode, every non-empty target list and every  *)
(* total >= 0, the per-target seconds computed by _log_overhead_hours sum  *)
(* to exactly the total, and when every create call succeeds the seconds   *)
(* of the created bookings sum to exactly the total.                       *)
(***************************************************************************)
C2_AllocationSum ==
    (last.op = "log_overhead" /\ last.targets # <<>>) =>
        /\ last.mode \in {"single", "equal", "custom"}
        /\ AllocatedSeconds(last.allocations) = last.total
        /\ AllCallsSucceeded =>
               /\ SumSeconds(last.returned) = last.total
               /\ SumSeconds(jira) = last.total

\* a custom split of 28801 seconds over weights 13 and 11 whose truncated
\* shares fall short of the total, both bookings created
C2_Witness ==
    /\ last.op = "log_overhead" /\ last.mode = "custom"
    /\ last.total = 28801 /\ Len(last.targets) = 2
    /\ HoursOf(last.targets[1]) = 13 /\ HoursOf(last.targets[2]) = 11
    /\ FloatShare(28801, 13, 24) + FloatShare(28801, 11, 24) < 28801
    /\ AllCallsSucceeded /\ Len(last.returned) = 2

(***************************************************************************)
(* C10: in custom mode with integer weights of positive sum, each target   *)
(* except the last is allocated the truncation of total * weight / (sum    *)
(* of weights), and the last its own truncated share plus the whole        *)
(* rounding error.                                                         *)
(***************************************************************************)
TruncatedShare(total, stories, i) ==
    (total * HoursOf(stories[i])) \div SumHours(stories)

C10_CustomTruncation ==
    (last.op = "log_overhead" /\ last.mode = "custom"
        /\ SumHours(last.targets) > 0) =>
        LET n      == Len(last.targets)
            shares == [i \in 1..n |->
                          TruncatedShare(last.total, last.targets, i)]
        IN  /\ \A i \in 1..(n - 1) : last.allocations[i].seconds = shares[i]
            /\ last.allocations[n].seconds
                   = shares[n] + (last.total - SumInts(shares))

\* the example of the claim: weights 5 and 3, 28800 seconds
C10_Example ==
    (last.op = "log_overhead" /\ last.mode = "custom" /\ last.total = 28800
        /\ Len(last.targets) = 2
        /\ HoursOf(last.targets[1]) = 5 /\ HoursOf(last.targets[2]) = 3) =>
        /\ last.allocations[1].seconds = 18000
        /\ last.allocations[2].seconds = 10800

(***************************************************************************)
(* Spec: one command per process (main() runs one operation and exits),    *)
(* from every starting state of the bounds.                                *)
(***************************************************************************)
MaxWorklogs == 2

MaxActive == 2

MaxRuns == 2

PlainStories == [i \in 1..MaxStories |-> Story(OverheadKey(i), <<>>)]

\* an identifier that does not parse, and one that parses to day 1
OpaquePi == << <<>> >>

DatedPi == << <<1>> >>

OverheadChoices ==
    {NoOverhead,
     OverheadConfig(CurrentPi(OpaquePi, <<>>, PlainStories, "equal"),
                    <<PtoKey>>, PlanningPi(<<>>, "None"), <<>>),
     OverheadConfig(CurrentPi(DatedPi, <<>>,
                        <<Story(OverheadKey(1), <<13>>),
                          Story(OverheadKey(2), <<11>>)>>, "custom"),
                    <<>>, PlanningPi(<<>>, "None"), <<>>),
     OverheadConfig(CurrentPi(OpaquePi, <<1>>, <<>>, "None"),
                    <<>>, PlanningPi(<<>>, "None"), <<FallbackKey>>),
     OverheadConfig(CurrentPi(OpaquePi, <<>>, PlainStories, "custom"),
                    <<PtoKey>>, PlanningPi(PlanningStories, "custom"), <<>>),
     OverheadConfig(CurrentPi(DatedPi, <<>>, PlainStories, "equal"),
                    <<>>, PlanningPi(PlanningStories, "custom"), <<>>)}

\* worklogs the ticket system may already hold, in fetch order
WorklogChoices(d) ==
    <<Worklog(OverheadKey(1), 7201, d), Worklog(OverheadKey(2), 30000, d),
      Worklog(TicketKey(1), 3600, d), Worklog(TicketKey(2), 1800, d + 1)>>

\* at most MaxWorklogs of them
WorklogLists(d) ==
    LET all == WorklogChoices(d)
    IN  {Keep(all, DOMAIN all \ I, 1) :
            I \in {J \in SUBSET DOMAIN all : Cardinality(J) <= MaxWorklogs}}

ActiveChoices == {[i \in 1..k |-> TicketKey(i)] : k \in 0..MaxActive}

\* the schedule leaves the day alone, forces work on it, or takes it off
ScheduleChoices(d) ==
    {<<{}, {}, {}>>, <<{d}, {d}, {}>>, <<{}, {d}, {}>>, <<{}, {}, {d}>>}

InitWorld ==
    /\ today \in Days
    /\ \E sc \in ScheduleChoices(today) :
          /\ working_days = sc[1] /\ pto_days = sc[2]
          /\ extra_holidays = sc[3]
    /\ org_holidays = <<>> /\ country_holidays = <<>> /\ dayResult = <<>>
    /\ config_file = SavedSchedule(pto_days, extra_holidays, working_days)
    /\ daily_hours = DailyHoursDefault
    /\ \/ /\ role = "developer"
          /\ overhead \in OverheadChoices
          /\ manual_activities = <<>>
          /\ jira \in WorklogLists(today)
          /\ tempo_manual \in {<<>>, <<Worklog(TicketKey(1), 1800, today)>>}
          /\ active_issues \in ActiveChoices
       \/ /\ role = "product_owner"
          /\ overhead \in {NoOverhead}
          /\ manual_activities \in
                {<<>>, <<[activity |-> "Meetings", hours |-> 5],
                         [activity |-> "Planning", hours |-> 3]>>}
          /\ jira = <<>>
          /\ tempo_manual \in {<<>>, <<Worklog(DefaultIssueKey, 3600, today)>>}
          /\ active_issues = <<>>
    /\ calls = <<>> /\ last = NoLast /\ runs = 0
    /\ TrayIdle

\* python tempo_automation.py [--date d]
SyncDaily ==
    /\ runs = 0
    /\ \E d \in Days : sync_daily(d, BOOLEAN)
    /\ runs' = runs + 1
    /\ UNCHANGED <<schedVars, dayResult, role, daily_hours, manual_activities,
                   active_issues, today, trayVars>>

\* python tempo_automation.py --verify-week, one day of the week
VerifyDay ==
    /\ runs = 0
    /\ \E d \in Days : d <= today /\ verify_day(d, BOOLEAN)
    /\ runs' = runs + 1
    /\ UNCHANGED <<schedVars, dayResult, role, daily_hours, manual_activities,
                   active_issues, today, trayVars>>

\* the month being submitted is the calendar window; its last day is the
\* last day of the window
FirstOfMonth == CHOOSE d \in Days : \A e \in Days : d <= e

LastOfMonth == CHOOSE d \in Days : \A e \in Days : e <= d

RECURSIVE count_working_days_exclusive(_, _)
\* a count that leaves the end date out
count_working_days_exclusive(start, end) ==
    IF start >= end THEN 0
    ELSE (IF is_working_day(start)[1] THEN 1 ELSE 0)
             + count_working_days_exclusive(start + 1, end)

RECURSIVE count_working_days(_, _)
\* count_working_days (lines 668-681)
count_working_days(start, end) ==
    IF start > end THEN 0
    ELSE (IF is_working_day(start)[1] THEN 1 ELSE 0)
             + count_working_days(start + 1, end)

\* get_my_worklogs(first, last)
FetchJiraRange(first, last_, ok) ==
    IF ok THEN SelectSeq(jira, LAMBDA wl : first <= wl.started /\ wl.started <= last_)
    ELSE <<>>

\* a submission that does not look at the day of the month
NotLastDay_never(t) == FALSE

\* today.day != last_day (line 3103)
NotLastDay(t) == t # LastOfMonth

ShortfallLimit == 1800

\* submit_timesheet (lines 3098-3173).  Hours are compared in seconds:
\* shortfall > 0.5 is expected * 3600 - actual seconds > 1800
submit_timesheet(B) ==
    IF NotLastDay(today)
    THEN /\ last' = [NoLast EXCEPT !.op = "submit_timesheet", !.date = today,
                                   !.outcome = "not_last_day",
                                   !.before = Before]
         /\ UNCHANGED <<jira, tempo_manual, calls, overhead>>
    ELSE \E jf \in B : \E success \in B :
            LET expected  == count_working_days(FirstOfMonth, today)
                                 * daily_hours * SecondsPerHour
                actual    == IF has_jira_client
                             THEN SumSeconds(FetchJiraRange(FirstOfMonth, today, jf))
                             ELSE 0
                shortfall == expected - actual
                notice    == IF shortfall > ShortfallLimit
                             THEN <<Call("shortfall_notification", "notifier",
                                         <<"monthly", 0>>, shortfall, today, TRUE)>>
                             ELSE <<>>
            IN  /\ calls' = calls \o notice
                       \o <<Call("submit", "tempo", <<"period", 0>>, 0, today,
                                 success)>>
                /\ last' = [NoLast EXCEPT !.op = "submit_timesheet",
                                !.date = today,
                                !.outcome = IF success THEN "submitted"
                                            ELSE "submit_failed",
                                !.total = shortfall,
                                !.fetched = IF has_jira_client THEN {"jira"} ELSE {},
                                !.failed = IF has_jira_client /\ ~jf THEN {"jira"}
                                           ELSE {},
                                !.before = Before]
                /\ UNCHANGED <<jira, tempo_manual, overhead>>

\* python tempo_automation.py --submit
SubmitTimesheet ==
    /\ runs = 0
    /\ submit_timesheet(BOOLEAN)
    /\ runs' = runs + 1
    /\ UNCHANGED <<schedVars, dayResult, role, daily_hours, manual_activities,
                   active_issues, today, trayVars>>

Init == InitWorld

Next == SyncDaily \/ VerifyDay \/ SubmitTimesheet

Spec == Init /\ [][Next]_vars

(***************************************************************************)
(* SpecIdem: the daily sync run again and again on the same date, every    *)
(* remote call succeeding, nothing else touching the two systems.          *)
(***************************************************************************)
SyncAgain ==
    /\ runs < MaxRuns
    /\ sync_daily(today, {TRUE})
    /\ runs' = runs + 1
    /\ UNCHANGED <<schedVars, dayResult, role, daily_hours, manual_activities,
                   active_issues, today, trayVars>>

NextIdem == SyncAgain

SpecIdem == InitWorld /\ [][NextIdem]_vars

(***************************************************************************)
(* SpecTray: the tray application.  Menu callbacks run on the UI thread;   *)
(* each accepted trigger starts a worker thread (_run_sync, _run_submit)   *)
(* that sets the busy flag, runs the operation and clears the flag.        *)
(***************************************************************************)
MaxThreads == 2

MaxToasts == 2

\* a worker thread: its target, its position, the local old_stdout (<<>>
\* while unbound) and whether its try block raised
Thread(target, pc) ==
    [target |-> target, pc |-> pc, old_stdout |-> <<>>, failed |-> FALSE]

show_toast(title) == toasts' = Append(toasts, title)

\* _on_sync_now (lines 397-413)
OnSyncNow ==
    /\ Len(threads) < MaxThreads /\ Len(toasts) < MaxToasts
    /\ IF sync_running
       THEN show_toast("Sync Already Running") /\ UNCHANGED threads
       ELSE IF ~automation_loaded
       THEN show_toast("Error") /\ UNCHANGED threads
       ELSE /\ threads' = Append(threads, Thread("_run_sync", "started"))
            /\ UNCHANGED toasts
    /\ UNCHANGED <<schedVars, dayResult, configVars, externVars, engineVars,
                   automation_loaded, sync_running,
                   shellVars>>

\* _on_submit_timesheet (lines 623-640)
OnSubmitTimesheet ==
    /\ Len(threads) < MaxThreads /\ Len(toasts) < MaxToasts
    /\ IF sync_running
       THEN show_toast("Busy") /\ UNCHANGED threads
       ELSE IF ~automation_loaded
       THEN show_toast("Error") /\ UNCHANGED threads
       ELSE /\ threads' = Append(threads, Thread("_run_submit", "started"))
            /\ UNCHANGED toasts
    /\ UNCHANGED <<schedVars, dayResult, configVars, externVars, engineVars,
                   automation_loaded, sync_running,
                   shellVars>>

\* the first statement of _run_sync / _run_submit: self._sync_running.set()
WorkerSetsFlag(i) ==
    /\ threads[i].pc = "started"
    /\ sync_running' = TRUE
    /\ threads' = [threads EXCEPT ![i].pc = "running"]
    /\ UNCHANGED <<schedVars, dayResult, configVars, externVars, engineVars,
                   automation_loaded, toasts,
                   shellVars>>

\* the try block of _run_sync (lines 421-448): a fresh TempoAutomation,
\* sync_daily() for today, then the toast
WorkerSyncs(i) ==
    /\ threads[i].target = "_run_sync" /\ threads[i].pc = "running"
    /\ sync_daily(today, BOOLEAN)
    /\ runs' = runs + 1
    /\ automation_loaded' = TRUE
    /\ show_toast("Sync Complete")
    /\ threads' = [threads EXCEPT ![i].pc = "finishing"]
    /\ UNCHANGED <<schedVars, dayResult, role, daily_hours, manual_activities,
                   active_issues, today, sync_running,
                   shellVars>>

\* the toast of _run_submit, chosen by the marker files it finds
SubmitToasts == {"Timesheet Submitted", "Shortfall Detected", "Submission Check"}

\* the try block of _run_submit (lines 650-715)
WorkerSubmits(i) ==
    /\ threads[i].target = "_run_submit" /\ threads[i].pc = "running"
    /\ submit_timesheet(BOOLEAN)
    /\ runs' = runs + 1
    /\ automation_loaded' = TRUE
    /\ \E title \in SubmitToasts : show_toast(title)
    /\ threads' = [threads EXCEPT ![i].pc = "finishing"]
    /\ UNCHANGED <<schedVars, dayResult, role, daily_hours, manual_activities,
                   active_issues, today, sync_running,
                   shellVars>>

\* finally: self._sync_running.clear()
WorkerClearsFlag(i) ==
    /\ threads[i].pc = "finishing"
    /\ sync_running' = FALSE
    /\ threads' = [threads EXCEPT ![i].pc = "done"]
    /\ UNCHANGED <<schedVars, dayResult, configVars, externVars, engineVars,
                   automation_loaded, toasts,
                   shellVars>>

InitTray ==
    /\ ScheduleIdle
    /\ role = "developer" /\ daily_hours = DailyHoursDefault
    /\ overhead = NoOverhead /\ manual_activities = <<>>
    /\ jira = <<>> /\ tempo_manual = <<>>
    /\ active_issues = <<TicketKey(1)>>
    /\ today \in Days
    /\ calls = <<>> /\ last = NoLast /\ runs = 0
    /\ automation_loaded \in BOOLEAN
    /\ sync_running = FALSE /\ threads = <<>> /\ toasts = <<>>
    /\ ShellIdle

NextTray ==
    \/ OnSyncNow
    \/ OnSubmitTimesheet
    \/ \E i \in DOMAIN threads : WorkerSetsFlag(i)
    \/ \E i \in DOMAIN threads : WorkerSyncs(i)
    \/ \E i \in DOMAIN threads : WorkerSubmits(i)
    \/ \E i \in DOMAIN threads : WorkerClearsFlag(i)

SpecTray == InitTray /\ [][NextTray]_vars

(***************************************************************************)
(* Bookings of a day.                                                      *)
(***************************************************************************)
\* the bookings (target key, seconds) of day d in worklog list q, with
\* their multiplicities
Bookings(q, d) ==
    LET on == SelectSeq(q, LAMBDA wl : wl.started = d)
        S  == {<<on[i].issue_key, on[i].time_spent_seconds>> : i \in DOMAIN on}
    IN  [b \in S |->
            Cardinality({i \in DOMAIN on :
                <<on[i].issue_key, on[i].time_spent_seconds>> = b})]

DaySeconds(q, d) == SumSeconds(SelectSeq(q, LAMBDA wl : wl.started = d))

OverheadDaySeconds(q, d) ==
    SumSeconds(SelectSeq(q, LAMBDA wl :
        wl.started = d /\ StartsWith(wl.issue_key, overhead.project_prefix)))

IsWeekendReason(reason) ==
    reason \in {"Weekend (Saturday)", "Weekend (Sunday)"}

CallsOf(op) == SelectSeq(calls, LAMBDA c : c.op = op)

(***************************************************************************)
(* C3: running the daily sync twice in succession on the same working      *)
(* date, nothing else changing and every remote call succeeding, leaves    *)
(* the same bookings (target key and seconds) after the second run as      *)
(* after the first; overhead and manual-only entries are untouched in      *)
(* both runs: only non-overhead entries are deleted.                       *)
(***************************************************************************)
C3_SecondRunKeepsBookings ==
    [][(runs' = runs + 1 /\ is_working_day(today)[1]) =>
          /\ runs >= 1 =>
                /\ Bookings(jira', today) = Bookings(jira, today)
                /\ Bookings(tempo_manual', today) = Bookings(tempo_manual, today)
          /\ role = "developer" =>
                /\ tempo_manual' = tempo_manual
                /\ \A i \in (Len(calls) + 1)..Len(calls') :
                      calls'[i].op = "delete" =>
                          ~StartsWith(calls'[i].issue_key,
                                      overhead.project_prefix)
                /\ OverheadDaySeconds(jira', today)
                       >= OverheadDaySeconds(jira, today)]_vars

\* a second run has deleted the ticket worklog the first run created and
\* created it again, next to an overhead worklog and a manual-only entry
C3_Witness ==
    /\ runs = 2 /\ last.outcome = "tickets" /\ is_working_day(today)[1]
    /\ OverheadDaySeconds(jira, today) > 0
    /\ tempo_manual # <<>>
    /\ \E i, j, k \in DOMAIN calls :
          /\ i < j /\ j < k
          /\ calls[i].op = "create" /\ calls[j].op = "delete"
          /\ calls[k].op = "create"
          /\ calls[j].issue_key = calls[i].issue_key
          /\ calls[k].issue_key = calls[i].issue_key
          /\ calls[j].seconds = calls[i].seconds
          /\ calls[k].seconds = calls[i].seconds
          /\ calls[i].seconds > 0

(***************************************************************************)
(* C4: the daily sync never double-books: when both worklog fetches        *)
(* returned the existing entries, after sync_daily on a working date the   *)
(* seconds booked for the date in the ticket system plus the manual-only   *)
(* booking-system seconds do not exceed the larger of the daily target     *)
(* and the overhead seconds present before the run, whatever the outcome   *)
(* of the delete and create calls.                                         *)
(***************************************************************************)
JiraOverheadBefore ==
    SumSeconds(SelectSeq(last.before.jira, LAMBDA wl :
        wl.started = last.date
            /\ StartsWith(wl.issue_key, overhead.project_prefix)))

\* the overhead the run counts: overhead worklogs and manual-only entries
OverheadBefore ==
    JiraOverheadBefore + DaySeconds(last.before.tempo_manual, last.date)

C4_NeverDoubleBooks ==
    (last.op = "sync_daily" /\ is_working_day(last.date)[1]
        /\ last.failed \cap {"jira", "tempo"} = {}) =>
        DaySeconds(jira, last.date) + DaySeconds(tempo_manual, last.date)
            <= (IF DailySeconds >= OverheadBefore THEN DailySeconds
                ELSE OverheadBefore)

(***************************************************************************)
(* C5: for every configuration, sync_daily on a date classified 'Weekend   *)
(* (Saturday)' or 'Weekend (Sunday)' ends as skipped without any create    *)
(* or delete call to either external system.                               *)
(***************************************************************************)
C5_WeekendSkipped ==
    (last.op = "sync_daily" /\ IsWeekendReason(last.reason)) =>
        /\ last.outcome \in {"skipped", "skipped_not_configured"}
        /\ calls = <<>>
        /\ jira = last.before.jira
        /\ tempo_manual = last.before.tempo_manual

(***************************************************************************)
(* C6: submit_timesheet never calls the booking system's submit operation  *)
(* when expected minus actual hours of the month exceeds 0.5h: it raises   *)
(* the shortfall notification and does not submit.  Stated for the runs    *)
(* whose worklog fetch succeeded; last.total is expected minus actual.     *)
(***************************************************************************)
C6_NoSubmitOnShortfall ==
    (last.op = "submit_timesheet" /\ last.outcome # "not_last_day"
        /\ last.failed = {} /\ last.total > ShortfallLimit) =>
        /\ CallsOf("submit") = <<>>
        /\ CallsOf("shortfall_notification") # <<>>

(***************************************************************************)
(* C7: in the tray application at most one sync or submit operation is in  *)
(* flight at any time: no two worker threads are between setting the busy  *)
(* flag and finishing their operation.                                     *)
(***************************************************************************)
InFlight == {i \in DOMAIN threads : threads[i].pc = "running"}

C7_AtMostOneInFlight == Cardinality(InFlight) <= 1

(***************************************************************************)
(* C8 as stated: on a PTO or holiday date (not a weekend) with overhead    *)
(* configured and PTO key K, gap = daily seconds minus the existing        *)
(* OVERHEAD seconds of the date; gap <= 0: nothing is created or deleted;  *)
(* otherwise exactly one booking is created, on K, for gap seconds.        *)
(* Stated for a developer, the worklog fetch and every create call         *)
(* succeeding.                                                             *)
(***************************************************************************)
OffDaySync ==
    /\ last.op = "sync_daily"
    /\ ~is_working_day(last.date)[1] /\ ~IsWeekendReason(last.reason)
    /\ is_overhead_configured /\ overhead.pto_story_key # <<>>

PtoBooking(gap) == Worklog(overhead.pto_story_key[1], gap, last.date)

C8_GapFromOverheadOnly ==
    (OffDaySync /\ role = "developer" /\ last.failed = {}
        /\ AllCallsSucceeded) =>
        LET gap == DailySeconds - JiraOverheadBefore
        IN  IF gap <= 0
            THEN calls = <<>> /\ jira = last.before.jira
            ELSE jira = last.before.jira \o <<PtoBooking(gap)>>

(***************************************************************************)
(* C8 amended: for a developer, gap = daily seconds minus the seconds of   *)
(* ALL ticket-system worklogs fetched for the date (none when the fetch    *)
(* fails); gap <= 0: no call is made; otherwise exactly one create call    *)
(* is made, on K, for gap seconds, and the booking exists exactly when     *)
(* that call succeeds.  Nothing is deleted.                                *)
(***************************************************************************)
C8_GapFromAllWorklogs ==
    (OffDaySync /\ role = "developer") =>
        LET existing == IF "jira" \in last.failed THEN 0
                        ELSE DaySeconds(last.before.jira, last.date)
            gap      == DailySeconds - existing
        IN  IF gap <= 0
            THEN calls = <<>> /\ jira = last.before.jira
            ELSE /\ Len(calls) = 1
                 /\ calls[1].op = "create" /\ calls[1].system = "jira"
                 /\ calls[1].issue_key = overhead.pto_story_key[1]
                 /\ calls[1].seconds = gap /\ calls[1].day = last.date
                 /\ jira = IF calls[1].ok
                           THEN last.before.jira \o <<PtoBooking(gap)>>
                           ELSE last.before.jira

\* a PTO day that already holds one hour on a project ticket: the one
\* booking made on K is for seven hours
C8_Witness ==
    /\ OffDaySync /\ role = "developer" /\ last.reason = "PTO"
    /\ last.failed = {}
    /\ JiraOverheadBefore = 0
    /\ DaySeconds(last.before.jira, last.date) = 3600
    /\ Len(calls) = 1 /\ calls[1].ok
    /\ calls[1].seconds = DailySeconds - 3600
    /\ jira = last.before.jira \o <<PtoBooking(DailySeconds - 3600)>>

(***************************************************************************)
(* C9: in every equal split (overhead stories in 'equal' mode, active      *)
(* tickets in the daily sync, unlogged tickets in backfill) over n >= 1    *)
(* targets and a total T >= 0, every target but the last is allocated      *)
(* floor(T / n) seconds and the last floor(T / n) + (T mod n).             *)
(***************************************************************************)
C9_EqualSplit ==
    (last.mode \in {"equal", "tickets", "backfill"}) =>
        LET n == Len(last.allocations)
            T == last.total
        IN  /\ n >= 1 /\ T >= 0
            /\ \A i \in 1..n :
                  last.allocations[i].seconds
                      = (T \div n) + (IF i = n THEN T % n ELSE 0)

\* a backfill of an odd number of seconds over two unlogged tickets
C9_Witness ==
    /\ last.op = "verify_week" /\ last.mode = "backfill"
    /\ Len(last.allocations) = 2 /\ last.total % 2 = 1
    /\ last.allocations[2].seconds = last.allocations[1].seconds + 1

(***************************************************************************)
(* SpecPlanning: _is_planning_week asked about every date around the PI    *)
(* end, for every calendar of the days the scan can reach: any weekday     *)
(* taken off, any weekend day made a working day.                          *)
(***************************************************************************)
\* the PI ends on a Friday
PiEnd == 4

\* the days after the PI end the scan can look at, and one more
ScanDays == (PiEnd + 1)..(PiEnd + ScanLimit + 1)

\* the dates asked about
PlanningTargets == (PiEnd - 1)..(PiEnd + ScanLimit + 2)

\* the overhead configuration of a PI that ends on PiEnd: the end date
\* given, or parsed from the identifier; and one without any end date
PlanningConfigs ==
    {OverheadConfig(CurrentPi(OpaquePi, <<PiEnd>>, PlainStories, "equal"),
                    <<>>, PlanningPi(<<>>, "None"), <<>>),
     OverheadConfig(CurrentPi(<< <<PiEnd>> >>, <<>>, PlainStories, "equal"),
                    <<>>, PlanningPi(<<>>, "None"), <<>>),
     OverheadConfig(CurrentPi(OpaquePi, <<>>, PlainStories, "equal"),
                    <<>>, PlanningPi(<<>>, "None"), <<>>)}

IsPlanningWeekCall(target) ==
    /\ runs = 0
    /\ runs' = runs + 1
    /\ last' = [NoLast EXCEPT !.op = "is_planning_week", !.date = target,
                              !.outcome = IF is_planning_week(target)
                                          THEN "planning" ELSE "not_planning",
                              !.before = Before]
    /\ UNCHANGED <<schedVars, dayResult, configVars, externVars, today, calls,
                   trayVars>>

InitPlanning ==
    /\ pto_days \in SUBSET {d \in ScanDays : weekday(d) < 5}
    /\ working_days \in SUBSET {d \in ScanDays : weekday(d) >= 5}
    /\ extra_holidays = {} /\ org_holidays = <<>> /\ country_holidays = <<>>
    /\ config_file = SavedSchedule(pto_days, extra_holidays, working_days)
    /\ dayResult = <<>>
    /\ role = "developer" /\ daily_hours = DailyHoursDefault
    /\ manual_activities = <<>>
    /\ overhead \in PlanningConfigs
    /\ (overhead.current_pi.pi_end_date = <<>>
           => pto_days \subseteq {PiEnd + 3} /\ working_days = {})
    /\ ExternIdle /\ EngineIdle /\ TrayIdle

NextPlanning == \E target \in PlanningTargets : IsPlanningWeekCall(target)

SpecPlanning == InitPlanning /\ [][NextPlanning]_vars

\* the number of working days among the k days after date e
WorkingAfter(e, k) ==
    Cardinality({d \in (e + 1)..(e + k) : is_working_day(d)[1]})

\* the PI end date the configuration gives, <<>> when it gives none
ConfiguredPiEnd ==
    IF overhead.current_pi.pi_end_date # <<>>
    THEN overhead.current_pi.pi_end_date
    ELSE parse_pi_end_date(overhead.current_pi.pi_identifier)

(***************************************************************************)
(* C11: _is_planning_week never accepts a planning window that extends     *)
(* more than 14 calendar days past the PI end date: when it returns true   *)
(* for a date, the date is after the PI end and at most 14 days after it;  *)
(* and when fewer than 5 working days lie within 14 days of the PI end it  *)
(* returns false for every date.                                           *)
(***************************************************************************)
C11_WindowWithinBound ==
    (last.op = "is_planning_week") =>
        /\ last.outcome = "planning" =>
               /\ ConfiguredPiEnd # <<>>
               /\ ConfiguredPiEnd[1] < last.date
               /\ last.date <= ConfiguredPiEnd[1] + ScanLimit
        /\ (ConfiguredPiEnd # <<>>
               /\ WorkingAfter(ConfiguredPiEnd[1], ScanLimit) < PlanningDays) =>
               last.outcome = "not_planning"

\* the day after the PI end asked about in a calendar with only four
\* working days in the fourteen days after the PI end
C11_Witness ==
    /\ last.op = "is_planning_week" /\ ConfiguredPiEnd = <<PiEnd>>
    /\ last.date = PiEnd + 1
    /\ WorkingAfter(PiEnd, ScanLimit) = PlanningDays - 1
    /\ last.outcome = "not_planning"

(***************************************************************************)
(* C20: when the 5th working day after the PI end date E falls on E + k    *)
(* with 1 <= k <= 14, _is_planning_week(d) is true exactly for the dates   *)
(* d with E < d <= E + k, and that window holds exactly 5 working days.    *)
(***************************************************************************)
\* the offsets k at which the count of working days after E reaches 5
FifthWorkingDay(e) ==
    {k \in 1..ScanLimit : /\ WorkingAfter(e, k) = PlanningDays
                          /\ WorkingAfter(e, k - 1) = PlanningDays - 1}

C20_WindowEndsOnFifth ==
    (last.op = "is_planning_week" /\ ConfiguredPiEnd # <<>>) =>
        \A k \in FifthWorkingDay(ConfiguredPiEnd[1]) :
            /\ (last.outcome = "planning")
                   = (ConfiguredPiEnd[1] < last.date
                          /\ last.date <= ConfiguredPiEnd[1] + k)
            /\ WorkingAfter(ConfiguredPiEnd[1], k) = PlanningDays

(***************************************************************************)
(* SpecCount: count_working_days / get_expected_hours asked about every    *)
(* range of the days around the calendar window, for every schedule.       *)
(***************************************************************************)
\* the dates a range can start or end on: Thursday .. the day after MaxDay
CountDays == 3..(MaxDay + 1)

\* get_expected_hours (lines 683-685)
get_expected_hours(start_date, end_date) ==
    count_working_days(start_date, end_date) * daily_hours

\* a caller asks for the count and the expected hours of a range;
\* last.returned holds <<end date, count, expected hours>>
GetExpectedHoursCall(start_date, end_date) ==
    /\ runs = 0
    /\ runs' = runs + 1
    /\ last' = [NoLast EXCEPT
                   !.op = "count_working_days", !.date = start_date,
                   !.returned = <<end_date,
                                  count_working_days(start_date, end_date),
                                  get_expected_hours(start_date, end_date)>>,
                   !.before = Before]
    /\ UNCHANGED <<schedVars, dayResult, configVars, externVars, today, calls,
                   trayVars>>

InitCount ==
    /\ working_days \in SUBSET Days
    /\ pto_days \in SUBSET Days
    /\ extra_holidays \in SUBSET Days
    /\ org_holidays \in {[d \in D |-> OrgHolidayName] : D \in SUBSET Days}
    /\ country_holidays \in {<<D>> : D \in SUBSET Days} \cup {<<>>}
    /\ config_file = SavedSchedule(pto_days, extra_holidays, working_days)
    /\ dayResult = <<>>
    /\ role = "developer"
    /\ daily_hours \in {DailyHoursDefault, DailyHoursDefault - 2}
    /\ overhead = NoOverhead /\ manual_activities = <<>>
    /\ ExternIdle /\ EngineIdle /\ TrayIdle

NextCount ==
    \E start_date \in CountDays : \E end_date \in CountDays :
        GetExpectedHoursCall(start_date, end_date)

SpecCount == InitCount /\ [][NextCount]_vars

(***************************************************************************)
(* C12: count_working_days(start, end) is the number of dates d with       *)
(* start <= d <= end, both endpoints included, that is_working_day         *)
(* classifies as working: for start = end it is 1 iff the day is working,  *)
(* for start > end it is 0; get_expected_hours(start, end) is that count   *)
(* times the daily hours.                                                  *)
(***************************************************************************)
C12_CountInclusive ==
    (last.op = "count_working_days") =>
        LET start_date == last.date
            end_date   == last.returned[1]
            count      == last.returned[2]
            expected   == last.returned[3]
        IN  /\ count = Cardinality({d \in start_date..end_date :
                                        is_working_day(d)[1]})
            /\ start_date = end_date =>
                   (count = 1) = is_working_day(start_date)[1]
            /\ start_date = end_date => count \in {0, 1}
            /\ start_date > end_date => count = 0
            /\ expected = count * daily_hours

\* Thursday .. Saturday with the Friday taken off and the Saturday made a
\* working day: the count is 2, the end date among the days counted
C12_Witness ==
    /\ last.op = "count_working_days"
    /\ last.date = 3 /\ last.returned[1] = 5
    /\ is_working_day(3)[1] /\ ~is_working_day(4)[1] /\ is_working_day(5)[1]
    /\ last.returned[2] = 2 /\ last.returned[3] = 2 * daily_hours

(***************************************************************************)
(* C13: submit_timesheet calls the booking system's submit operation only  *)
(* when today is the last calendar day of the month; on any other day it   *)
(* returns without fetching worklogs, notifying or submitting.             *)
(***************************************************************************)
C13_SubmitOnlyOnLastDay ==
    (last.op = "submit_timesheet") =>
        /\ CallsOf("submit") # <<>> => last.date = LastOfMonth
        /\ last.date # LastOfMonth =>
               /\ last.outcome = "not_last_day"
               /\ calls = <<>>
               /\ last.fetched = {}
               /\ jira = last.before.jira
               /\ tempo_manual = last.before.tempo_manual

\* a working Friday that is not the last day, nothing booked in the month:
\* the run neither notifies of the shortfall nor submits
C13_Witness ==
    /\ last.op = "submit_timesheet" /\ last.date # LastOfMonth
    /\ is_working_day(last.date)[1] /\ jira = <<>>
    /\ role = "developer"
    /\ last.outcome = "not_last_day" /\ calls = <<>>

(***************************************************************************)
(* SpecMutate: the schedule mutation operations (--add-pto, --remove-pto,  *)
(* --add-holiday, ...), each given a list of date strings.                 *)
(*                                                                         *)
(* A date string is a number.  The zero-padded YYYY-MM-DD string of day d  *)
(* is d itself, as everywhere in the model (strftime writes it and         *)
(* is_working_day looks it up).  The other strings a request can hold:     *)
(*   Unpadded(d)  the date of day d with a month or day of one digit,      *)
(*                e.g. '2026-4-7' for '2026-04-07'                         *)
(*   Spaced(d)    the zero-padded string with blanks around it             *)
(*   BadChars     a string with other characters than digits and '-'       *)
(*   NoSuchDate   digits and '-' that strptime rejects, e.g. '2026-02-30'  *)
(***************************************************************************)
FormStride == 100

Unpadded(d) == FormStride + d

Spaced(d) == 2 * FormStride + d

BadChars == 3 * FormStride

NoSuchDate == 3 * FormStride + 1

\* str.strip()
strip(x) ==
    IF 2 * FormStride <= x /\ x < 3 * FormStride THEN x - 2 * FormStride ELSE x

\* re.match(r'^[\d\-]+$', date_str)
OnlyDigitsAndDashes(x) == x < 2 * FormStride \/ x = NoSuchDate

\* datetime.strptime(date_str, '%Y-%m-%d'): <<day>>, or <<>> for ValueError;
\* %m and %d accept one digit as well as two
strptime(x) == IF x < 2 * FormStride THEN <<x % FormStride>> ELSE <<>>

\* date.strftime('%Y-%m-%d')
strftime(d) == d

\* _validate_date (lines 1001-1018)
validate_date(x) == OnlyDigitsAndDashes(x) /\ strptime(x) # <<>>

RECURSIVE AddDates(_, _, _, _, _)
\* the loop of add_pto (skip_weekends) / add_extra_holidays /
\* add_working_days over the request: the set, the added list and the
\* skipped list (the date string of each message) it ends with
AddDates(dates, set, added, skipped, skip_weekends) ==
    IF dates = <<>> THEN [set |-> set, added |-> added, skipped |-> skipped]
    ELSE LET d == strip(Head(dates))
         IN  IF ~validate_date(d)
                 THEN AddDates(Tail(dates), set, added, Append(skipped, d),
                               skip_weekends)
             ELSE IF skip_weekends /\ weekday(strptime(d)[1]) >= 5
                 THEN AddDates(Tail(dates), set, added, Append(skipped, d),
                               skip_weekends)
             ELSE IF d \notin set
                 THEN AddDates(Tail(dates), set \cup {d}, Append(added, d),
                               skipped, skip_weekends)
             ELSE AddDates(Tail(dates), set, added, Append(skipped, d),
                           skip_weekends)

RECURSIVE RemoveDates(_, _, _)
\* the loop of remove_pto / remove_extra_holidays / remove_working_days
RemoveDates(dates, set, removed) ==
    IF dates = <<>> THEN [set |-> set, added |-> removed, skipped |-> <<>>]
    ELSE LET d == strip(Head(dates))
         IN  IF d \in set
             THEN RemoveDates(Tail(dates), set \ {d}, Append(removed, d))
             ELSE RemoveDates(Tail(dates), set, removed)

\* the end of every mutation operation: the sets are stored, and the file
\* written when something was added or removed (saved: the write succeeds);
\* last.targets is the request, last.returned the added / removed list
\* a save that would merge the writer's lists into the lists of the file
save_schedule_to_config_merged(file, pto, extra, working, written) ==
    IF written
    THEN SavedSchedule(pto \cup {file.pto_days[i] : i \in DOMAIN file.pto_days},
                       extra \cup {file.extra_holidays[i] :
                                      i \in DOMAIN file.extra_holidays},
                       working \cup {file.working_days[i] :
                                        i \in DOMAIN file.working_days})
    ELSE file

\* _save_schedule_to_config (lines 986-999): the file after the call, given
\* the file before it, the writer's three sets and whether json.dump wrote
\* (an exception is only logged and leaves the file as it was)
save_schedule_to_config(file, pto, extra, working, written) ==
    IF written THEN SavedSchedule(pto, extra, working) ELSE file

Mutated(op, dates, pto, extra, working, changed, skipped, saved) ==
    /\ runs' = runs + 1
    /\ pto_days' = pto /\ extra_holidays' = extra /\ working_days' = working
    /\ config_file' = IF changed # <<>>
                      THEN save_schedule_to_config(config_file, pto, extra,
                                                   working, saved)
                      ELSE config_file
    /\ last' = [NoLast EXCEPT !.op = op, !.targets = dates,
                              !.returned = changed, !.skipped = skipped,
                              !.before = Before]
    /\ UNCHANGED <<org_holidays, country_holidays, dayResult, configVars,
                   externVars, today, calls, trayVars>>

\* the longest request list
MaxRequest == 2

\* the strings of a request
RequestStrings ==
    Days \cup {Unpadded(4), Spaced(MaxDay), BadChars, NoSuchDate}

Requests == UNION {[1..n -> RequestStrings] : n \in 1..MaxRequest}

\* add_pto (lines 858-888)
AddPto ==
    /\ runs < MaxRuns
    /\ \E dates \in Requests : \E saved \in BOOLEAN :
        \E r \in {AddDates(dates, pto_days, <<>>, <<>>, TRUE)} :
            Mutated("add_pto", dates, r.set, extra_holidays, working_days,
                    r.added, r.skipped, saved)

\* remove_pto (lines 890-904)
RemovePto ==
    /\ runs < MaxRuns
    /\ \E dates \in Requests : \E saved \in BOOLEAN :
        \E r \in {RemoveDates(dates, pto_days, <<>>)} :
            Mutated("remove_pto", dates, r.set, extra_holidays, working_days,
                    r.added, r.skipped, saved)

\* add_extra_holidays (lines 906-925)
AddExtraHolidays ==
    /\ runs < MaxRuns
    /\ \E dates \in Requests : \E saved \in BOOLEAN :
        \E r \in {AddDates(dates, extra_holidays, <<>>, <<>>, FALSE)} :
            Mutated("add_extra_holidays", dates, pto_days, r.set, working_days,
                    r.added, r.skipped, saved)

\* remove_extra_holidays (lines 927-944)
RemoveExtraHolidays ==
    /\ runs < MaxRuns
    /\ \E dates \in Requests : \E saved \in BOOLEAN :
        \E r \in {RemoveDates(dates, extra_holidays, <<>>)} :
            Mutated("remove_extra_holidays", dates, pto_days, r.set,
                    working_days, r.added, r.skipped, saved)

\* add_working_days (lines 946-965)
AddWorkingDays ==
    /\ runs < MaxRuns
    /\ \E dates \in Requests : \E saved \in BOOLEAN :
        \E r \in {AddDates(dates, working_days, <<>>, <<>>, FALSE)} :
            Mutated("add_working_days", dates, pto_days, extra_holidays, r.set,
                    r.added, r.skipped, saved)

\* remove_working_days (lines 967-984)
RemoveWorkingDays ==
    /\ runs < MaxRuns
    /\ \E dates \in Requests : \E saved \in BOOLEAN :
        \E r \in {RemoveDates(dates, working_days, <<>>)} :
            Mutated("remove_working_days", dates, pto_days, extra_holidays,
                    r.set, r.added, r.skipped, saved)

\* valid sets to start from: zero-padded dates of the window
InitMutate ==
    /\ pto_days \in SUBSET {d \in Days : weekday(d) < 5}
    /\ extra_holidays \in {{}, {MaxDay}}
    /\ working_days \in {{}, {MaxDay}}
    /\ org_holidays = <<>> /\ country_holidays = <<>>
    /\ config_file = SavedSchedule(pto_days, extra_holidays, working_days)
    /\ dayResult = <<>>
    /\ ConfigIdle /\ ExternIdle /\ EngineIdle /\ TrayIdle

NextMutate ==
    \/ AddPto
    \/ RemovePto
    \/ AddExtraHolidays
    \/ RemoveExtraHolidays
    \/ AddWorkingDays
    \/ RemoveWorkingDays

SpecMutate == InitMutate /\ [][NextMutate]_vars

AddOperations == {"add_pto", "add_extra_holidays", "add_working_days"}

\* the schedule state: the three sets in memory and the file
ScheduleState == <<pto_days, extra_holidays, working_days, config_file>>

(***************************************************************************)
(* C14: after any sequence of add / remove operations from valid sets,     *)
(* every element of pto_days, extra_holidays and working_days is a valid   *)
(* calendar date in the exact zero-padded YYYY-MM-DD form that             *)
(* is_working_day looks up, so that a date an add operation accepted is    *)
(* found by is_working_day for its calendar day.                           *)
(***************************************************************************)
C14_StoredDatesCanonical ==
    /\ \A x \in pto_days \cup extra_holidays \cup working_days :
          /\ validate_date(x)
          /\ strftime(strptime(x)[1]) = x
    /\ (last.op = "add_pto") =>
          \A i \in DOMAIN last.returned :
              LET day == strptime(last.returned[i])[1]
              IN  strftime(day) \notin working_days =>
                      is_working_day(strftime(day)) = <<FALSE, "PTO">>

(***************************************************************************)
(* C15: a schedule mutation operation (add_pto, add_extra_holidays,        *)
(* add_working_days) whose request list contains an invalid date string    *)
(* is aborted: the three date sets in memory and the persisted             *)
(* configuration are the same after the call as before it.                 *)
(***************************************************************************)
C15_InvalidRequestAborts ==
    (last.op \in AddOperations
        /\ \E i \in DOMAIN last.targets : ~validate_date(strip(last.targets[i])))
        => ScheduleState = last.before.schedule

(***************************************************************************)
(* C16: within one multi-target allocation each booking creation is        *)
(* attempted independently: a failed create neither prevents the attempts  *)
(* for the remaining targets nor rolls back (deletes) the siblings already *)
(* created, and the result returned for the allocation holds exactly the   *)
(* targets whose create call succeeded.  The attempts are the allocations  *)
(* the loop does not skip: all of them for tickets, those of more than 0   *)
(* seconds for overhead stories.                                           *)
(***************************************************************************)
\* the allocations a create call is due for
DueCreates ==
    IF last.mode \in {"single", "equal", "custom"}
    THEN SelectSeq(last.allocations, LAMBDA a : a.seconds > 0)
    ELSE last.allocations

\* the part of the result that the allocation added to the preserved entries
CreatedResult == SubSeq(last.returned, Len(last.kept) + 1, Len(last.returned))

C16_CreatesIndependent ==
    (last.op \in {"sync_daily", "verify_week"} /\ Len(DueCreates) >= 2) =>
        LET cr   == CallsOf("create")
            good == SelectSeq(cr, LAMBDA c : c.ok)
        IN  /\ Len(cr) = Len(DueCreates)
            /\ \A i \in DOMAIN cr :
                  /\ cr[i].issue_key = DueCreates[i].issue_key
                  /\ cr[i].seconds = DueCreates[i].seconds
                  /\ cr[i].day = last.date
            /\ \A i, j \in DOMAIN calls :
                  (i < j /\ calls[i].op = "create") => calls[j].op = "create"
            /\ Len(CreatedResult) = Len(good)
            /\ \A i \in DOMAIN good :
                  /\ CreatedResult[i].issue_key = good[i].issue_key
                  /\ CreatedResult[i].time_spent_seconds = good[i].seconds
            /\ \A i \in DOMAIN good :
                  LET store == IF good[i].system = "jira" THEN jira
                               ELSE tempo_manual
                  IN  \E k \in DOMAIN store :
                          store[k] = Worklog(good[i].issue_key,
                                             good[i].seconds, last.date)

\* the split over two active tickets: the first create fails, the second
\* is attempted all the same and is the one booking returned
C16_Witness ==
    /\ last.op = "sync_daily" /\ last.mode = "tickets"
    /\ Len(last.allocations) = 2
    /\ Len(CallsOf("create")) = 2
    /\ ~CallsOf("create")[1].ok /\ CallsOf("create")[2].ok
    /\ Len(CreatedResult) = 1
    /\ CreatedResult[1].issue_key = last.allocations[2].issue_key

(***************************************************************************)
(* C17: the daily sync never deletes an overhead entry (a ticket-system    *)
(* worklog whose key starts with the configured overhead prefix), never    *)
(* touches an entry made in the booking system only, and deletes no        *)
(* worklog of another date; on a working day of a developer it issues one  *)
(* delete call for every non-overhead ticket-system worklog of the date    *)
(* (those the worklog fetch returned).                                     *)
(***************************************************************************)
AutoLogOutcomes ==
    {"overhead_meets_target", "planning_week", "no_tickets_overhead",
     "no_tickets_not_configured", "tickets"}

IsOverheadEntry(wl) ==
    StartsWith(wl.issue_key, last.before.overhead[1].project_prefix)

\* the worklogs the date held before the run that are not overhead
NonOverheadBefore ==
    SelectSeq(last.before.jira,
              LAMBDA wl : wl.started = last.date /\ ~IsOverheadEntry(wl))

C17_DeletesOnlyNonOverhead ==
    (last.op = "sync_daily") =>
        LET dl       == CallsOf("delete")
            other(q) == SelectSeq(q, LAMBDA wl : wl.started # last.date)
            oh(q)    == SelectSeq(q, LAMBDA wl : wl.started = last.date
                                                    /\ IsOverheadEntry(wl))
            had      == oh(last.before.jira)
        IN  /\ \A i \in DOMAIN dl :
                  /\ dl[i].system = "jira"
                  /\ \E k \in DOMAIN NonOverheadBefore :
                        /\ NonOverheadBefore[k].issue_key = dl[i].issue_key
                        /\ NonOverheadBefore[k].time_spent_seconds
                              = dl[i].seconds
            /\ other(jira) = other(last.before.jira)
            /\ Len(oh(jira)) >= Len(had)
            /\ SubSeq(oh(jira), 1, Len(had)) = had
            /\ Len(tempo_manual) >= Len(last.before.tempo_manual)
            /\ SubSeq(tempo_manual, 1, Len(last.before.tempo_manual))
                  = last.before.tempo_manual
            /\ (role = "developer") =>
                  tempo_manual = last.before.tempo_manual
            /\ (last.outcome \in AutoLogOutcomes /\ "jira" \notin last.failed) =>
                  /\ Len(dl) = Len(NonOverheadBefore)
                  /\ \A i \in DOMAIN dl :
                        /\ dl[i].issue_key = NonOverheadBefore[i].issue_key
                        /\ dl[i].seconds
                              = NonOverheadBefore[i].time_spent_seconds

\* a day that holds an overhead worklog, a ticket worklog and a manual-only
\* entry: the one delete is that of the ticket worklog, and the two other
\* entries are still there
C17_Witness ==
    /\ last.op = "sync_daily" /\ last.outcome \in AutoLogOutcomes
    /\ Len(last.before.jira) = 2
    /\ \E i \in DOMAIN last.before.jira :
          LET wl == last.before.jira[i]
          IN  wl.started = last.date /\ IsOverheadEntry(wl)
                 /\ \E k \in DOMAIN jira : jira[k] = wl
    /\ Len(NonOverheadBefore) = 1
    /\ Len(CallsOf("delete")) = 1 /\ CallsOf("delete")[1].ok
    /\ last.before.tempo_manual # <<>>
    /\ tempo_manual = last.before.tempo_manual

(***************************************************************************)
(* C18: in the daily sync remaining = dailyHours*3600 - (seconds of the    *)
(* overhead entries + max(0, booking-system total - ticket-system total)), *)
(* the totals being those the two fetches returned; whenever remaining <=  *)
(* 0 the run ends without a create call and without a query for the        *)
(* active tickets, and otherwise remaining is what the run allocates.      *)
(***************************************************************************)
\* what the two fetches of the run returned, from the state before it
FetchedJiraBefore ==
    IF "jira" \in last.failed THEN <<>>
    ELSE SelectSeq(last.before.jira, LAMBDA wl : wl.started = last.date)

FetchedTempoBefore ==
    IF "tempo" \in last.failed THEN <<>>
    ELSE SelectSeq(last.before.jira, LAMBDA wl : wl.started = last.date)
         \o SelectSeq(last.before.tempo_manual,
                      LAMBDA wl : wl.started = last.date)

RemainingBefore ==
    LET ticketSystemTotal  == SumSeconds(FetchedJiraBefore)
        bookingSystemTotal == SumSeconds(FetchedTempoBefore)
        overheadEntries    == SumSeconds(SelectSeq(FetchedJiraBefore,
                                                   IsOverheadEntry))
        manualOnly == IF bookingSystemTotal - ticketSystemTotal > 0
                      THEN bookingSystemTotal - ticketSystemTotal ELSE 0
    IN  daily_hours * SecondsPerHour - (overheadEntries + manualOnly)

C18_RemainingBudget ==
    (last.op = "sync_daily" /\ last.outcome \in AutoLogOutcomes) =>
        /\ (last.outcome = "overhead_meets_target") <=> (RemainingBefore <= 0)
        /\ (RemainingBefore <= 0) =>
              /\ CallsOf("create") = <<>>
              /\ "active" \notin last.fetched
              /\ last.allocations = <<>>
              /\ last.returned = last.kept
        /\ (RemainingBefore > 0 /\ last.allocations # <<>>) =>
              /\ last.total = RemainingBefore
              /\ SumInts([i \in DOMAIN last.allocations |->
                             last.allocations[i].seconds]) = RemainingBefore

\* the overhead worklog of the day exceeds the daily target while active
\* tickets exist: the ticket worklog is deleted, nothing is created and the
\* active tickets are not asked for
C18_Witness ==
    /\ last.op = "sync_daily" /\ last.outcome = "overhead_meets_target"
    /\ RemainingBefore < 0
    /\ active_issues # <<>>
    /\ "active" \notin last.fetched
    /\ CallsOf("delete") # <<>>
    /\ CallsOf("create") = <<>>

(***************************************************************************)
(* C19: when the remaining budget is positive and the date is in the       *)
(* planning window of the current PI, the daily sync books the remaining   *)
(* seconds on the planning-PI stories only (on the current-PI stories when *)
(* no planning stories are configured) and ends without querying or        *)
(* booking the active tickets.                                             *)
(***************************************************************************)
\* the date lies after the PI end and not after the 5th working day after it
InPlanningWindow(d) ==
    /\ ConfiguredPiEnd # <<>>
    /\ \E k \in FifthWorkingDay(ConfiguredPiEnd[1]) :
          ConfiguredPiEnd[1] < d /\ d <= ConfiguredPiEnd[1] + k

KeysOf(stories) == {stories[i].issue_key : i \in DOMAIN stories}

\* the targets the statement names
NamedPlanningTargets ==
    LET oh == last.before.overhead[1]
    IN  IF oh.planning_pi.stories # <<>> THEN oh.planning_pi.stories
        ELSE oh.current_pi.stories

\* the targets _log_overhead_hours resolves: the fallback key stands in when
\* neither list holds a story
ResolvedPlanningTargets ==
    LET oh == last.before.overhead[1]
    IN  IF NamedPlanningTargets # <<>> THEN NamedPlanningTargets
        ELSE IF oh.fallback_issue_key # <<>>
             THEN <<Story(oh.fallback_issue_key[1], <<>>)>>
        ELSE <<>>

PlanningCase ==
    /\ last.op = "sync_daily" /\ last.outcome \in AutoLogOutcomes
    /\ RemainingBefore > 0
    /\ InPlanningWindow(last.date)

CreatedSeconds ==
    SumInts([i \in DOMAIN CallsOf("create") |-> CallsOf("create")[i].seconds])

NoTicketsCase ==
    /\ last.op = "sync_daily" /\ last.outcome \in AutoLogOutcomes
    /\ RemainingBefore > 0
    /\ ~InPlanningWindow(last.date)
    /\ (active_issues = <<>> \/ "active" \in last.failed)

\* _is_overhead_configured on the configuration the run started with
ConfiguredBefore ==
    LET cp == last.before.overhead[1].current_pi
    IN  cp.pi_identifier # <<>> /\ cp.stories # <<>>

AllocatedTotal ==
    SumInts([i \in DOMAIN last.allocations |-> last.allocations[i].seconds])

C21_NoTicketsOverhead ==
    NoTicketsCase =>
        IF ConfiguredBefore
        THEN /\ last.outcome = "no_tickets_overhead"
             /\ "active" \in last.fetched
             /\ last.total = RemainingBefore
             /\ AllocatedTotal = RemainingBefore
             /\ CreatedSeconds = RemainingBefore
             /\ \A i \in DOMAIN last.allocations :
                   last.allocations[i].issue_key
                       \in KeysOf(last.before.overhead[1].current_pi.stories)
             /\ \A i \in DOMAIN CallsOf("create") :
                   CallsOf("create")[i].issue_key
                       \in KeysOf(last.before.overhead[1].current_pi.stories)
        ELSE /\ last.outcome = "no_tickets_not_configured"
             /\ last.allocations = <<>>
             /\ CallsOf("create") = <<>>
             /\ last.returned = last.kept

\* no active ticket, two overhead stories and an overhead worklog already on
\* the day: what is left of the day is split over the two stories
C21_Witness ==
    /\ NoTicketsCase /\ ConfiguredBefore
    /\ active_issues = <<>> /\ "active" \notin last.failed
    /\ last.outcome = "no_tickets_overhead"
    /\ last.kept # <<>>
    /\ RemainingBefore < daily_hours * SecondsPerHour
    /\ Len(CallsOf("create")) = 2
    /\ \A i \in DOMAIN CallsOf("create") : CallsOf("create")[i].ok

(***************************************************************************)
(* C22: on a working date outside the planning window with at least one    *)
(* active ticket, overhead seconds below the daily target and every remote *)
(* call succeeding, the entries the daily sync reports (preserved          *)
(* overhead, the manual-only entry, the new bookings) total exactly        *)
(* dailyHours*3600 seconds, and so do the seconds booked for the date      *)
(* across both systems after the run.                                      *)
(***************************************************************************)
TicketsCase ==
    /\ last.op = "sync_daily" /\ last.outcome \in AutoLogOutcomes
    /\ RemainingBefore > 0
    /\ ~InPlanningWindow(last.date)
    /\ active_issues # <<>>
    /\ last.failed = {}
    /\ AllCallsSucceeded

ReportedSeconds ==
    SumInts([i \in DOMAIN last.returned |->
                last.returned[i].time_spent_seconds])

C22_DayFilledExactly ==
    TicketsCase =>
        /\ last.outcome = "tickets"
        /\ ReportedSeconds = daily_hours * SecondsPerHour
        /\ DaySeconds(jira, last.date) + DaySeconds(tempo_manual, last.date)
              = daily_hours * SecondsPerHour

\* an overhead worklog, a ticket worklog and a manual-only entry on the day,
\* two active tickets: the ticket worklog is deleted and the odd rest of the
\* day is split over the two tickets
C22_Witness ==
    /\ TicketsCase
    /\ Len(last.kept) = 2
    /\ last.kept[2].issue_key = TempoOnlyKey
    /\ Len(CallsOf("delete")) = 1
    /\ Len(CallsOf("create")) = 2
    /\ RemainingBefore % 2 = 1
    /\ CallsOf("create")[2].seconds = CallsOf("create")[1].seconds + 1
    /\ ReportedSeconds = daily_hours * SecondsPerHour

(***************************************************************************)
(* SpecNearFull: one daily sync or one day of verify_week on a day that    *)
(* lacks a single second: fewer seconds to distribute than targets.        *)
(***************************************************************************)
\* seconds the day lacks
Lacking == 1

\* what the ticket system holds: nothing, or one worklog (overhead or
\* ticket) that leaves the day Lacking seconds short
NearFullWorklogs(d) ==
    {<<>>,
     <<Worklog(OverheadKey(1), DailySeconds - Lacking, d)>>,
     <<Worklog(TicketKey(MaxActive + 1), DailySeconds - Lacking, d)>>}

InitNearFull ==
    /\ ScheduleIdle /\ TrayIdle
    /\ today \in Days
    /\ role = "developer" /\ daily_hours = DailyHoursDefault
    /\ manual_activities = <<>>
    /\ overhead \in {NoOverhead,
                     OverheadConfig(CurrentPi(OpaquePi, <<>>, PlainStories,
                                              "equal"),
                                    <<PtoKey>>, PlanningPi(<<>>, "None"), <<>>)}
    /\ jira \in NearFullWorklogs(today)
    /\ tempo_manual = <<>>
    /\ active_issues \in ActiveChoices
    /\ calls = <<>> /\ last = NoLast /\ runs = 0

NextNearFull == SyncDaily \/ VerifyDay

SpecNearFull == InitNearFull /\ [][NextNearFull]_vars

(***************************************************************************)
(* C23: no zero-second booking is ever created: in every allocation path   *)
(* (overhead stories, active tickets in the daily sync, unlogged tickets   *)
(* in the backfill) a target whose share is 0 seconds gets no create call. *)
(***************************************************************************)
C23_NoZeroSecondCreate ==
    \A i \in DOMAIN calls : calls[i].op = "create" => calls[i].seconds > 0

(***************************************************************************)
(* SpecDegrade: _log_overhead_hours in custom mode on stories whose        *)
(* weights are all absent or all 0, for short and long story lists, every  *)
(* create call succeeding.                                                 *)
(***************************************************************************)
ManyStories == 49

DegradeSizes == {1, 2, 3, ManyStories}

DegradeTotals == 0..(2 * ManyStories)

DegradedCall ==
    /\ runs = 0
    /\ \E total_seconds \in DegradeTotals :
          log_overhead_hours(today, total_seconds, <<>>, "None", {TRUE})
    /\ runs' = runs + 1
    /\ UNCHANGED <<schedVars, dayResult, role, daily_hours, manual_activities,
                   active_issues, today, trayVars>>

InitDegrade ==
    /\ ScheduleIdle /\ ExternIdle /\ EngineIdle /\ TrayIdle
    /\ role = "developer" /\ daily_hours = DailyHoursDefault
    /\ manual_activities = <<>>
    /\ \E n \in DegradeSizes : \E w \in {<<>>, <<0>>} :
          overhead = OverheadConfig(
                         CurrentPi(OpaquePi, <<>>,
                                   [i \in 1..n |-> Story(OverheadKey(i), w)],
                                   "custom"),
                         <<>>, PlanningPi(<<>>, "None"), <<>>)

NextDegrade == DegradedCall

SpecDegrade == InitDegrade /\ [][NextDegrade]_vars

(***************************************************************************)
(* C24: in custom mode, when the sum of the weights is <= 0 the allocation *)
(* degrades to an equal split: every target but the last is allocated      *)
(* floor(totalSeconds/n) and the last gets the remainder added.            *)
(***************************************************************************)
C24_DegradesToEqual ==
    (last.op = "log_overhead" /\ last.mode = "custom"
        /\ last.targets # <<>> /\ SumHours(last.targets) <= 0) =>
        LET n == Len(last.targets)
        IN  /\ Len(last.allocations) = n
            /\ \A i \in 1..n :
                  last.allocations[i].seconds
                      = (last.total \div n)
                          + (IF i = n THEN last.total % n ELSE 0)

(***************************************************************************)
(* C25: the overhead configuration is read-only for the engine: no run of  *)
(* sync_daily, verify_week or _log_overhead_hours changes the stories,     *)
(* their weights, the distribution mode, the PTO key or the fallback key   *)
(* held in the in-memory configuration.                                    *)
(***************************************************************************)
C25_ConfigReadOnly ==
    (last.op \in {"sync_daily", "verify_week", "log_overhead"}) =>
        overhead = last.before.overhead[1]

(***************************************************************************)
(* C26: _backfill_day leaves out every ticket whose key is already booked  *)
(* on the date; then, if no ticket remains and overhead is configured, it  *)
(* allocates the full gap to the overhead stories (method 'overhead'); if  *)
(* none remains and overhead is not configured it creates nothing (method  *)
(* 'none'); otherwise it splits the gap equally over the remaining tickets *)
(* (method 'stories').  When all creates succeed in the 'stories' or       *)
(* 'overhead' case the seconds added equal the gap exactly.                *)
(***************************************************************************)
BackfillOutcomes == {"backfill_stories", "backfill_overhead", "backfill_none"}

\* the keys check_day_hours found on the date
ExistingKeysBefore ==
    {FetchedJiraBefore[i].issue_key : i \in DOMAIN FetchedJiraBefore}

\* the seconds the run added to the date in the ticket system
SecondsAdded ==
    DaySeconds(jira, last.date) - DaySeconds(last.before.jira, last.date)

C26_BackfillBranches ==
    (last.op = "verify_week" /\ last.outcome \in BackfillOutcomes
        /\ role = "developer") =>
        LET remaining == SelectSeq(last.history,
                                   LAMBDA k : k \notin ExistingKeysBefore)
            n         == Len(remaining)
            gap       == last.total
        IN  /\ CallsOf("delete") = <<>>
            /\ \A i \in DOMAIN CallsOf("create") :
                  CallsOf("create")[i].issue_key \notin ExistingKeysBefore
                      \/ last.outcome = "backfill_overhead"
            /\ IF remaining = <<>>
               THEN IF ConfiguredBefore
                    THEN /\ last.outcome = "backfill_overhead"
                         /\ AllocatedTotal = gap
                         /\ \A i \in DOMAIN last.allocations :
                               last.allocations[i].issue_key \in
                                   KeysOf(last.before.overhead[1]
                                              .current_pi.stories)
                         /\ AllCallsSucceeded => SecondsAdded = gap
                    ELSE /\ last.outcome = "backfill_none"
                         /\ calls = <<>>
                         /\ SecondsAdded = 0
               ELSE /\ last.outcome = "backfill_stories"
                    /\ gap > 0
                    /\ Len(last.allocations) = n
                    /\ \A i \in 1..n :
                          /\ last.allocations[i].issue_key = remaining[i]
                          /\ last.allocations[i].seconds
                                = (gap \div n) + (IF i = n THEN gap % n ELSE 0)
                    /\ AllCallsSucceeded => SecondsAdded = gap

\* two tickets were active on the day and one of them is already booked:
\* the whole gap goes to the other one
C26_Witness ==
    /\ last.op = "verify_week" /\ last.outcome = "backfill_stories"
    /\ Len(last.history) = 2
    /\ last.history[1] \in ExistingKeysBefore
    /\ Len(CallsOf("create")) = 1
    /\ CallsOf("create")[1].issue_key = last.history[2]
    /\ CallsOf("create")[1].ok
    /\ SecondsAdded = last.total /\ last.total > 0

(***************************************************************************)
(* C27: for a PTO or holiday day of the current week with overhead         *)
(* configured, verify_week handles the day as the daily sync does: the     *)
(* existing bookings of the day are preserved (no delete call) and only    *)
(* the gap (dailyHours*3600 minus the existing seconds) is booked on the   *)
(* PTO key; when the gap is 0 nothing is created.                          *)
(***************************************************************************)
VerifyOffDay ==
    /\ last.op = "verify_week"
    /\ last.outcome \in {"verify_off_day_logged", "verify_off_day_ok"}
    /\ last.before.overhead[1].pto_story_key # <<>>

C27_VerifyOffDayKeepsBookings ==
    VerifyOffDay =>
        LET existing == SumSeconds(FetchedJiraBefore)
            gap      == IF daily_hours * SecondsPerHour - existing > 0
                        THEN daily_hours * SecondsPerHour - existing ELSE 0
        IN  /\ CallsOf("delete") = <<>>
            /\ \A i \in DOMAIN last.before.jira :
                  \E k \in DOMAIN jira : jira[k] = last.before.jira[i]
            /\ gap = 0 => CallsOf("create") = <<>>
            /\ gap > 0 =>
                  /\ Len(CallsOf("create")) = 1
                  /\ CallsOf("create")[1].issue_key
                        = last.before.overhead[1].pto_story_key[1]
                  /\ CallsOf("create")[1].seconds = gap

(***************************************************************************)
(* SpecSyncVerify: a daily sync of today followed by verify_week's pass    *)
(* over the same day, every remote call succeeding and nothing else        *)
(* touching the two systems.                                               *)
(***************************************************************************)
SyncFirst ==
    /\ runs = 0
    /\ sync_daily(today, {TRUE})
    /\ runs' = runs + 1
    /\ UNCHANGED <<schedVars, dayResult, role, daily_hours, manual_activities,
                   active_issues, today, trayVars>>

VerifyAfter ==
    /\ runs = 1
    /\ verify_day(today, {TRUE})
    /\ runs' = runs + 1
    /\ UNCHANGED <<schedVars, dayResult, role, daily_hours, manual_activities,
                   active_issues, today, trayVars>>

NextSyncVerify == SyncFirst \/ VerifyAfter

SpecSyncVerify == InitWorld /\ [][NextSyncVerify]_vars

(***************************************************************************)
(* C28: verify_week derives a day's gap with the shortfall check of the    *)
(* daily sync (manual-only booking-system seconds count toward the daily   *)
(* target): after a daily sync of working date d in which all remote calls *)
(* succeeded and the day was filled to dailyHours, a following verify_week *)
(* over d creates no booking for d.                                        *)
(***************************************************************************)
\* the verify pass started from a working day filled to the daily target
\* across both systems
FilledBeforeVerify ==
    /\ last.op = "verify_week" /\ runs = 2
    /\ role = "developer"
    /\ is_working_day(last.date)[1]
    /\ DaySeconds(last.before.jira, last.date)
          + DaySeconds(last.before.tempo_manual, last.date)
          = daily_hours * SecondsPerHour

C28_VerifyAfterSyncCreatesNothing ==
    FilledBeforeVerify =>
        /\ last.allocations = <<>>
        /\ jira = last.before.jira
        /\ tempo_manual = last.before.tempo_manual

(***************************************************************************)
(* C29: the 'actual' hours verify_week reports and compares with the       *)
(* expected hours equal, when all remote calls succeed, the hours booked   *)
(* in the ticket system for the counted days at the end of the run: no day *)
(* contributes more than its surviving existing entries plus its newly     *)
(* created entries.                                                        *)
(***************************************************************************)
\* lines 3248-3269, 3307-3327, 3350: what a counted day adds to
\* total_actual, in seconds: existing_hours of _check_day_hours plus
\* added_hours of the entries created
DayActual ==
    SumSeconds(FetchedJiraBefore)
        + SumInts([i \in DOMAIN last.returned |->
                      last.returned[i].time_spent_seconds])

\* line 3348: the day's status does not hold '[--]'
DayCounted ==
    /\ last.op = "verify_week"
    /\ last.outcome # "verify_skipped"

C29_ActualIsBooked ==
    (DayCounted /\ last.failed = {} /\ AllCallsSucceeded) =>
        DayActual = DaySeconds(jira, last.date)

(***************************************************************************)
(* C30: a failed remote fetch is treated as 'no data' and never aborts the *)
(* run: when the worklog fetches for a working date fail, the daily sync   *)
(* proceeds as if the date had no bookings (nothing deleted, nothing       *)
(* preserved) and allocates the full dailyHours*3600 seconds, and a failed *)
(* active-ticket fetch is handled exactly like 'no active tickets'.        *)
(***************************************************************************)
C30_FailedFetchIsNoData ==
    (last.op = "sync_daily" /\ last.outcome \in AutoLogOutcomes) =>
        /\ ({"jira", "tempo"} \subseteq last.failed) =>
              /\ CallsOf("delete") = <<>>
              /\ last.kept = <<>>
              /\ RemainingBefore = daily_hours * SecondsPerHour
              /\ last.outcome # "overhead_meets_target"
              /\ last.allocations # <<>> =>
                    /\ last.total = daily_hours * SecondsPerHour
                    /\ AllocatedTotal = daily_hours * SecondsPerHour
                    /\ CreatedSeconds = daily_hours * SecondsPerHour
        /\ ("active" \in last.failed) =>
              /\ last.mode # "tickets"
              /\ last.outcome = IF ConfiguredBefore THEN "no_tickets_overhead"
                                ELSE "no_tickets_not_configured"

\* all three fetches fail on a day that holds a worklog and has active
\* tickets: nothing is deleted and the full day goes to the overhead stories
C30_Witness ==
    /\ last.op = "sync_daily"
    /\ last.failed = {"jira", "tempo", "active"}
    /\ active_issues # <<>>
    /\ DaySeconds(last.before.jira, last.date) > 0
    /\ last.outcome = "no_tickets_overhead"
    /\ CallsOf("delete") = <<>>
    /\ CreatedSeconds = daily_hours * SecondsPerHour

(***************************************************************************)
(* C31: the daily sync on a working date never leaves the date with fewer  *)
(* booked seconds in the ticket system than it had before the run: every   *)
(* non-overhead entry it deletes is made up for by bookings it creates in  *)
(* the same run, in every branch.  Stated for the runs whose create calls  *)
(* all succeed.                                                            *)
(***************************************************************************)
C31_NeverFewerSeconds ==
    (last.op = "sync_daily" /\ last.outcome \in AutoLogOutcomes
        /\ \A i \in DOMAIN CallsOf("create") : CallsOf("create")[i].ok) =>
        DaySeconds(jira, last.date) >= DaySeconds(last.before.jira, last.date)

\* ---------------------------------------------------------------------
\* add_pto: what it inserts, what it returns, when it writes the file

\* the calendar days the strings of a set stand for
DaysOf(set) == {strptime(x)[1] : x \in {y \in set : strptime(y) # <<>>}}

\* the number of entries of a list that carry the string x
Entries(list, x) == Cardinality({i \in DOMAIN list : list[i] = x})

\* C32: add_pto never inserts a Saturday or a Sunday and never inserts a
\* date that was already in the PTO list; it writes the configuration file
\* only when at least one date was applied, and then with the schedule it
\* holds; every requested date is in the applied list or has exactly one
\* entry in the skipped list.
C32_AddPtoInserts ==
    (last.op = "add_pto") =>
        LET old == last.before.schedule[1]
            applied == last.returned
        IN  /\ \A i \in DOMAIN applied :
                /\ weekday(strptime(applied[i])[1]) < 5
                /\ strptime(applied[i])[1] \notin DaysOf(old)
            /\ pto_days \ old = {applied[i] : i \in DOMAIN applied}
            /\ applied = <<>> => config_file = last.before.schedule[4]
            /\ applied # <<>> =>
                config_file \in {last.before.schedule[4],
                                 SavedSchedule(pto_days, extra_holidays,
                                               working_days)}
            /\ \A i \in DOMAIN last.targets :
                LET d == strip(last.targets[i])
                IN  \/ Entries(applied, d) > 0
                    \/ Entries(last.skipped, d) =
                           Entries([j \in DOMAIN last.targets |->
                                       strip(last.targets[j])], d)

(***************************************************************************)
(* SpecHolidays: the org holiday table of several years, loaded by a       *)
(* process that starts in one of them.                                     *)
(***************************************************************************)
\* a calendar year is YearLen days long: the dates 0..6 are year 0, 7..13
\* year 1, ...; weekday(d) = d % 7 keeps the days of the week
YearLen == 7

\* the years the table and the process clock range over
MaxYear == 2

TableYears == 0..MaxYear

\* date.year
year_of(d) == d \div YearLen

Thursday(y) == y * YearLen + 3

Friday(y) == y * YearLen + 4

StateHolidayName == "State Day"

\* what the table can hold for one year of a country: 'common' and the
\* state 'MH', each a list of {date, name}
YearData(y) ==
    [common : {<<>>, <<[date |-> Thursday(y), name |-> OrgHolidayName]>>},
     MH : {<<>>, <<[date |-> Thursday(y), name |-> StateHolidayName]>>,
           <<[date |-> Friday(y), name |-> StateHolidayName]>>}]

\* org_holidays.json: 'holidays' -> country -> year -> 'common' / state;
\* every entry stands under the year of its date
OrgTables ==
    {[c \in {"US", "IN"} |->
        IF c = "US" THEN us
        ELSE [y \in TableYears |->
                 [common |-> <<[date |-> Friday(y), name |-> OrgHolidayName]>>,
                  MH |-> <<>>]]] :
        us \in {f \in [TableYears -> UNION {YearData(y) : y \in TableYears}] :
                   \A y \in TableYears : f[y] \in YearData(y)}}

RECURSIVE PutAll(_, _)
\* for h in list: self._org_holidays[h['date']] = h['name']
PutAll(dict, list) ==
    IF list = <<>> THEN dict
    ELSE PutAll([x \in DOMAIN dict \cup {Head(list).date} |->
                    IF x = Head(list).date THEN Head(list).name ELSE dict[x]],
                Tail(list))

RECURSIVE ParseYears(_, _, _, _)
\* the loop over the years of _parse_org_holidays (lines 529-541)
ParseYears(years, country_data, state, dict) ==
    IF years = <<>> THEN dict
    ELSE LET year == Head(years)
             year_data == IF year \in DOMAIN country_data
                          THEN country_data[year]
                          ELSE [common |-> <<>>, MH |-> <<>>]
             common == year_data.common
             state_holidays == IF state # "" THEN year_data[state] ELSE <<>>
         IN  ParseYears(Tail(years), country_data, state,
                        PutAll(PutAll(dict, common), state_holidays))

\* _parse_org_holidays (lines 520-546): the flat date -> name dict of the
\* current year and the next one
parse_org_holidays(data, country_code, state, now) ==
    LET country_data == IF country_code \in DOMAIN data
                        THEN data[country_code] ELSE <<>>
    IN  ParseYears(<<year_of(now), year_of(now) + 1>>, country_data, state,
                   <<>>)

\* ScheduleManager.__init__ (lines 481-493) of a process that starts on the
\* date `today`: the table on disk is loaded and parsed
LoadOrgHolidays ==
    /\ runs = 0
    /\ \E data \in OrgTables : \E country_code \in {"US", "IN"} :
       \E state \in {"", "MH"} :
        /\ org_holidays' = parse_org_holidays(data, country_code, state, today)
        /\ last' = [NoLast EXCEPT !.op = "load_org_holidays", !.date = today,
                        !.targets = <<[data |-> data,
                                       country_code |-> country_code,
                                       state |-> state]>>]
    /\ runs' = 1
    /\ UNCHANGED <<working_days, pto_days, extra_holidays, country_holidays,
                   config_file, dayResult, configVars, externVars, today,
                   calls, trayVars>>

\* a caller of the constructed ScheduleManager classifies a date
ClassifyDate ==
    /\ runs = 1
    /\ \E y \in TableYears : \E d \in {Thursday(y), Friday(y)} :
           IsWorkingDayCall(d)

InitHolidays ==
    /\ working_days \in {{}, {Thursday(0)}}
    /\ pto_days \in {{}, {Thursday(1)}}
    /\ extra_holidays = {}
    /\ org_holidays = <<>> /\ country_holidays = <<>>
    /\ config_file = SavedSchedule(pto_days, extra_holidays, working_days)
    /\ dayResult = <<>>
    /\ ConfigIdle /\ ExternIdle /\ TrayIdle
    /\ today \in {Friday(y) : y \in TableYears}
    /\ calls = <<>> /\ last = NoLast /\ runs = 0

NextHolidays == LoadOrgHolidays \/ ClassifyDate

SpecHolidays == InitHolidays /\ [][NextHolidays]_vars

\* the names the loaded table lists for a date, for the configured country,
\* under 'common' or under the configured state, in any year
ListedNames(d) ==
    LET cfg == last.targets[1]
        country_data == cfg.data[cfg.country_code]
        lists == {country_data[y].common : y \in DOMAIN country_data}
                 \cup (IF cfg.state = "" THEN {}
                       ELSE {country_data[y][cfg.state] :
                                y \in DOMAIN country_data})
    IN  {n \in {OrgHolidayName, StateHolidayName} :
            \E l \in lists : \E i \in DOMAIN l :
                l[i].date = d /\ l[i].name = n}

\* C33: every date the org holiday table lists for the configured country
\* (under 'common' or under the configured state), in any year, that is not
\* a working-day override, a PTO day or a weekend is classified non-working
\* with the reason 'Holiday: <name>', whatever the date the process started
\* on.
C33_ListedHolidayAnyYear ==
    (last.op = "load_org_holidays" /\ dayResult # <<>>) =>
        LET d == dayResult[1].date
        IN  (ListedNames(d) # {} /\ d \notin working_days
                /\ d \notin pto_days /\ weekday(d) < 5) =>
                    \E n \in ListedNames(d) :
                        dayResult[1].result = <<FALSE, "Holiday: " \o n>>

(***************************************************************************)
(* SpecWriters: the tray app, which keeps the configuration it loaded, and *)
(* command-line invocations, which load the file, change it and exit.      *)
(***************************************************************************)
\* set(self.schedule.get(...)): the set a list of the file is loaded as
Loaded(list) == {list[i] : i \in DOMAIN list}

\* `tempo_automation.py --add-pto DATES` (main, lines 3665-3668): a fresh
\* process loads config.json, runs add_pto on its own copy and exits; the
\* copy the tray app holds is not touched
CliAddPto ==
    /\ runs < MaxRuns
    /\ \E dates \in Requests : \E saved \in BOOLEAN :
        \E r \in {AddDates(dates, Loaded(config_file.pto_days), <<>>, <<>>,
                           TRUE)} :
            /\ config_file' =
                IF r.added # <<>>
                THEN save_schedule_to_config(config_file, r.set,
                         Loaded(config_file.extra_holidays),
                         Loaded(config_file.working_days), saved)
                ELSE config_file
            /\ last' = [NoLast EXCEPT !.op = "cli_add_pto",
                            !.targets = dates, !.returned = r.added,
                            !.skipped = r.skipped, !.before = Before]
    /\ runs' = runs + 1
    /\ UNCHANGED <<working_days, pto_days, extra_holidays, org_holidays,
                   country_holidays, dayResult, configVars, externVars,
                   today, calls, trayVars>>

\* _run_sync re-creates the TempoAutomation instance (tray_app.py line 424):
\* the tray app's copy becomes what the file holds
ReloadConfig ==
    /\ runs < MaxRuns
    /\ pto_days' = Loaded(config_file.pto_days)
    /\ extra_holidays' = Loaded(config_file.extra_holidays)
    /\ working_days' = Loaded(config_file.working_days)
    /\ last' = [NoLast EXCEPT !.op = "reload", !.before = Before]
    /\ UNCHANGED <<org_holidays, country_holidays, config_file, dayResult,
                   configVars, externVars, today, calls, runs, trayVars>>

\* the tray app's 'Add PTO' (_process_pto_input, lines 567-594) is add_pto
\* on the copy the tray app holds: AddPto
NextWriters == AddPto \/ CliAddPto \/ ReloadConfig

SpecWriters == InitMutate /\ [][NextWriters]_vars

\* C34: persisting is a whole-file replace by the writer's own copy: after
\* a write the PTO list of the file is the list the writer had loaded plus
\* the dates it applied, whatever the file held before -- so a date another
\* invocation persisted in between is gone (the witness).
C34_WholeFileReplace ==
    (last.op \in {"add_pto", "cli_add_pto"}
        /\ config_file # last.before.schedule[4]) =>
        LET loaded == IF last.op = "add_pto" THEN last.before.schedule[1]
                      ELSE Loaded(last.before.schedule[4].pto_days)
        IN  Loaded(config_file.pto_days) =
                loaded \cup Loaded(last.returned)

\* a tray 'Add PTO' wrote the file and a date that a command-line
\* invocation had persisted since the tray app loaded its copy is no longer
\* in the file
C34_LostUpdate ==
    /\ last.op = "add_pto"
    /\ config_file # last.before.schedule[4]
    /\ \E d \in Loaded(last.before.schedule[4].pto_days) :
          /\ d \notin last.before.schedule[1]
          /\ d \notin Loaded(config_file.pto_days)

(***************************************************************************)
(* SpecShell: the tray instance with its icon, standard output and stop    *)
(* file; the worker threads step by step, with the exceptions their try    *)
(* blocks can raise; `--stop` invocations and second tray instances.       *)
(***************************************************************************)
\* stop_app polls the stop file this many times (range(10), line 1257)
StopPolls == 10

worldVars == <<schedVars, dayResult, configVars, externVars, engineVars>>

\* the positions of a worker that has left its function
Ended == {"done", "died", "reverted"}

\* a mutant: the flag is cleared only when the try block did not raise
clear_on_success(flag, failed) == IF failed THEN flag ELSE FALSE

\* finally: self._sync_running.clear() (lines 459-460, 732-733)
clear_in_finally(flag, failed) == FALSE

\* _set_icon_state (lines 947-955): stops the animation, sets the colour
set_icon_state(color) == anim_running' = FALSE /\ icon' = color

\* the statements before the try block (lines 417-419, 644-649): the flag,
\* the animation and, in _run_submit only, old_stdout = sys.stdout
WorkerBegins(i) ==
    /\ app = "running" /\ threads[i].pc = "started"
    /\ sync_running' = TRUE
    /\ anim_running' = TRUE
    /\ threads' = [threads EXCEPT ![i].pc = "create",
                       ![i].old_stdout = IF threads[i].target = "_run_submit"
                                         THEN <<stdout>> ELSE <<>>]
    /\ UNCHANGED <<worldVars, automation_loaded, toasts, icon, stdout, app,
                   stop_file, stopper>>

\* self._automation = TempoAutomation(CONFIG_FILE) (lines 423-424, 653-654):
\* it returns, or the import or the constructor raises
WorkerCreates(i) ==
    /\ app = "running" /\ threads[i].pc = "create"
    /\ \/ /\ automation_loaded' = TRUE
          /\ threads' = [threads EXCEPT ![i].pc = "redirect"]
       \/ /\ threads' = [threads EXCEPT ![i].pc = "except", ![i].failed = TRUE]
          /\ UNCHANGED automation_loaded
    /\ UNCHANGED <<worldVars, sync_running, toasts, shellVars>>

\* the log file is opened and written, then standard output is redirected
\* (lines 428-436, 657-665); open() or write() may raise.  _run_sync binds
\* old_stdout only here
WorkerRedirects(i) ==
    /\ app = "running" /\ threads[i].pc = "redirect"
    /\ \/ /\ stdout' = "log"
          /\ threads' = [threads EXCEPT ![i].pc = "operate",
                             ![i].old_stdout =
                                 IF threads[i].target = "_run_sync"
                                 THEN <<stdout>> ELSE threads[i].old_stdout]
       \/ /\ threads' = [threads EXCEPT ![i].pc = "except", ![i].failed = TRUE]
          /\ UNCHANGED stdout
    /\ UNCHANGED <<worldVars, automation_loaded, sync_running, toasts, icon,
                   anim_running, app, stop_file, stopper>>

\* self._automation.sync_daily() / submit_timesheet() (lines 438, 667): the
\* operation runs to its end, or raises before its first remote call
WorkerOperates(i) ==
    /\ app = "running" /\ threads[i].pc = "operate"
    /\ \/ /\ IF threads[i].target = "_run_sync"
             THEN sync_daily(today, BOOLEAN)
             ELSE submit_timesheet(BOOLEAN)
          /\ runs' = runs + 1
          /\ threads' = [threads EXCEPT ![i].pc = "restore"]
       \/ /\ threads' = [threads EXCEPT ![i].pc = "except", ![i].failed = TRUE]
          /\ UNCHANGED <<jira, tempo_manual, calls, overhead, last, runs>>
    /\ UNCHANGED <<schedVars, dayResult, role, daily_hours, manual_activities,
                   active_issues, today, automation_loaded, sync_running,
                   toasts, shellVars>>

\* after the operation (lines 440-448, 669-715): standard output is
\* restored, the icon set, the toast shown
WorkerRestores(i) ==
    /\ app = "running" /\ threads[i].pc = "restore"
    /\ stdout' = threads[i].old_stdout[1]
    /\ IF threads[i].target = "_run_sync"
       THEN set_icon_state("green") /\ show_toast("Sync Complete")
       ELSE \E title \in SubmitToasts :
               /\ set_icon_state(IF title = "Shortfall Detected"
                                 THEN "orange" ELSE "green")
               /\ show_toast(title)
    /\ threads' = [threads EXCEPT ![i].pc = "finally"]
    /\ UNCHANGED <<worldVars, automation_loaded, sync_running, app,
                   stop_file, stopper>>

\* except Exception (lines 449-457, 717-731): its first statement reads
\* old_stdout; while that name is unbound the read raises UnboundLocalError
\* and the rest of the handler is not run
WorkerHandles(i) ==
    /\ app = "running" /\ threads[i].pc = "except"
    /\ IF threads[i].old_stdout = <<>>
       THEN /\ threads' = [threads EXCEPT ![i].pc = "finally_raised"]
            /\ UNCHANGED <<stdout, icon, anim_running, toasts>>
       ELSE /\ stdout' = threads[i].old_stdout[1]
            /\ set_icon_state("red")
            /\ show_toast(IF threads[i].target = "_run_sync"
                          THEN "Sync Failed" ELSE "Submit Failed")
            /\ threads' = [threads EXCEPT ![i].pc = "finally"]
    /\ UNCHANGED <<worldVars, automation_loaded, sync_running, app,
                   stop_file, stopper>>

\* finally (lines 459-460, 732-733); an exception that left the handler
\* then leaves the function, and the thread ends without the revert timer
WorkerFinally(i) ==
    /\ app = "running" /\ threads[i].pc \in {"finally", "finally_raised"}
    /\ sync_running' = clear_in_finally(sync_running, threads[i].failed)
    /\ threads' = [threads EXCEPT ![i].pc = IF threads[i].pc = "finally"
                                            THEN "done" ELSE "died"]
    /\ UNCHANGED <<worldVars, automation_loaded, toasts, shellVars>>

\* the _revert timer, five seconds after the function's end (lines 462-473,
\* 735-743)
WorkerReverts(i) ==
    /\ app = "running" /\ threads[i].pc = "done"
    /\ IF ~sync_running /\ automation_loaded
       THEN set_icon_state("green")
       ELSE UNCHANGED <<icon, anim_running>>
    /\ threads' = [threads EXCEPT ![i].pc = "reverted"]
    /\ UNCHANGED <<worldVars, automation_loaded, sync_running, toasts,
                   stdout, app, stop_file, stopper>>

WorkerStep(i) ==
    \/ WorkerBegins(i)
    \/ WorkerCreates(i)
    \/ WorkerRedirects(i)
    \/ WorkerOperates(i)
    \/ WorkerRestores(i)
    \/ WorkerHandles(i)
    \/ WorkerFinally(i)
    \/ WorkerReverts(i)

\* the menu callbacks of the running instance
MenuSyncNow == app = "running" /\ OnSyncNow

MenuSubmitTimesheet == app = "running" /\ OnSubmitTimesheet

\* _watch_stop_file (lines 1071-1088), polled once a second: the stop file
\* is removed, the animation stopped and the message pump ended; run()
\* returns and the process exits with its daemon threads
WatchStopFile ==
    /\ app = "running" /\ stop_file
    /\ stop_file' = FALSE
    /\ anim_running' = FALSE
    /\ app' = "stopped"
    /\ UNCHANGED <<worldVars, automation_loaded, sync_running, threads,
                   toasts, icon, stdout, stopper>>

\* run() of a second tray process while one is running (lines 1029-1035):
\* a stop file is removed as stale, then the single-instance check fails
\* and the process exits
SecondInstance ==
    /\ app = "running" /\ stop_file
    /\ stop_file' = FALSE
    /\ UNCHANGED <<worldVars, automation_loaded, sync_running, threads,
                   toasts, icon, anim_running, stdout, app, stopper>>

\* stop_app (lines 1249-1253): the stop file is written
StopAppSignals ==
    /\ stopper.pc = "none"
    /\ stop_file' = TRUE
    /\ stopper' = [stopper EXCEPT !.pc = "waiting"]
    /\ UNCHANGED <<worldVars, automation_loaded, sync_running, threads,
                   toasts, icon, anim_running, stdout, app>>

\* stop_app (lines 1255-1268): one poll of the loop, or the clean-up after
\* the last one
StopAppPolls ==
    /\ stopper.pc = "waiting"
    /\ IF stopper.polls < StopPolls
       THEN IF ~stop_file
            THEN /\ stopper' = [stopper EXCEPT !.pc = "done",
                                    !.polls = stopper.polls + 1,
                                    !.report = "Tray app stopped"]
                 /\ UNCHANGED stop_file
            ELSE /\ stopper' = [stopper EXCEPT !.polls = stopper.polls + 1]
                 /\ UNCHANGED stop_file
       ELSE /\ stop_file' = FALSE
            /\ stopper' = [stopper EXCEPT !.pc = "done", !.report =
                    "Stop signal sent (app may take a moment to exit)"]
    /\ UNCHANGED <<worldVars, automation_loaded, sync_running, threads,
                   toasts, icon, anim_running, stdout, app>>

InitShell == InitTray

NextShell ==
    \/ MenuSyncNow
    \/ MenuSubmitTimesheet
    \/ \E i \in DOMAIN threads : WorkerBegins(i)
    \/ \E i \in DOMAIN threads : WorkerCreates(i)
    \/ \E i \in DOMAIN threads : WorkerRedirects(i)
    \/ \E i \in DOMAIN threads : WorkerOperates(i)
    \/ \E i \in DOMAIN threads : WorkerRestores(i)
    \/ \E i \in DOMAIN threads : WorkerHandles(i)
    \/ \E i \in DOMAIN threads : WorkerFinally(i)
    \/ \E i \in DOMAIN threads : WorkerReverts(i)
    \/ WatchStopFile
    \/ SecondInstance
    \/ StopAppSignals
    \/ StopAppPolls

SpecShell == InitShell /\ [][NextShell]_vars

\* C35: the stop signal is acted on only between operations: the tray app
\* never shuts down while a sync or a submit is in flight (busy flag set).
C35_StopOnlyBetweenOperations ==
    (app = "stopped") =>
        /\ ~sync_running
        /\ \A i \in DOMAIN threads : threads[i].pc \in Ended \cup {"started"}

(***************************************************************************)
(* SpecWorkers: the menu callbacks and the workers of a tray instance that *)
(* is not stopped.  A started thread is scheduled by the interpreter and   *)
(* every statement of a worker returns or raises (the remote calls carry   *)
(* timeouts), hence weak fairness of each worker's steps.                  *)
(***************************************************************************)
WorkerStepOf(i) == i \in DOMAIN threads /\ WorkerStep(i)

NextWorkers ==
    \/ MenuSyncNow
    \/ MenuSubmitTimesheet
    \/ \E i \in DOMAIN threads : WorkerBegins(i)
    \/ \E i \in DOMAIN threads : WorkerCreates(i)
    \/ \E i \in DOMAIN threads : WorkerRedirects(i)
    \/ \E i \in DOMAIN threads : WorkerOperates(i)
    \/ \E i \in DOMAIN threads : WorkerRestores(i)
    \/ \E i \in DOMAIN threads : WorkerHandles(i)
    \/ \E i \in DOMAIN threads : WorkerFinally(i)
    \/ \E i \in DOMAIN threads : WorkerReverts(i)

SpecWorkers ==
    /\ InitShell /\ [][NextWorkers]_vars
    /\ \A i \in 1..MaxThreads : WF_vars(WorkerStepOf(i))

C37_FailedSyncReported ==
    \A i \in DOMAIN threads :
        (threads[i].target = "_run_sync" /\ threads[i].failed
            /\ threads[i].pc \in Ended /\ app = "running"
            /\ \A j \in DOMAIN threads : threads[j].pc \in Ended) =>
                /\ ~anim_running
                /\ \E t \in DOMAIN toasts : toasts[t] = "Sync Failed"
                /\ stdout = "console"

\* C38: a stop signal written by stop_app is consumed only by the running
\* tray instance (the start of a second instance never removes it), and
\* stop_app reports 'Tray app stopped' only if the running instance
\* observed the signal and shut down.
C38_StopConsumedByRunningInstance ==
    /\ [](stopper.report = "Tray app stopped" => app = "stopped")
    /\ [][(stop_file /\ ~stop_file') =>
              (app' = "stopped" \/ stopper'.pc = "done")]_vars

====
